---- MODULE Spec2Model ----
(***************************************************************************)
(* A model of the proxy server: the response cache (MemoryCache), the      *)
(* token-bucket rate limiter (RateLimiter), reverse-mode path routing and  *)
(* the SOCKS5 session state machine, the forward handler with the forward  *)
(* primitive, and the middleware pipeline.  Each component has its own     *)
(* specification (SpecCache, SpecRate, SpecRoute, SpecSocks, SpecForward,  *)
(* SpecPipeline) over the shared variables; the components a specification *)
(* does not exercise stay in their constructed state.                      *)
(***************************************************************************)
EXTENDS Integers, Sequences, FiniteSets, TLC

VARIABLES
    now,                 \* time.time(), in seconds
    \* ---- MemoryCache (middleware/cache.py)
    ttl,                 \* self.ttl, seconds
    max_size,            \* self.max_size, bytes
    cache,               \* self.cache: the dict, as its entries in insertion order
    size,                \* self.size
    ret,                 \* the last MemoryCache call: arguments, return value, what it removed
    \* ---- RateLimiter (middleware/rate_limit.py)
    requests_per_minute, \* self.requests_per_minute
    burst,               \* self.burst
    clients,             \* self.clients: client_id -> bucket
    calls,               \* per client: what is remembered of its calls of is_allowed
    \* ---- ReverseProxyHandler (handlers/reverse.py)
    targets,             \* self.targets: name -> Target
    path_routing,        \* self.path_routing: the dict, as its items in insertion order
    route,               \* the last _get_target_for_path call: its path and its result
    \* ---- Socks5ProxyHandler (handlers/socks5.py)
    require_auth,        \* self.require_auth
    users,               \* security.authentication.users of self.config
    sockname,            \* writer.get_extra_info('sockname') of the accepted connection
    session,             \* one client connection handled by handle_connection
    \* ---- ForwardProxyHandler (handlers/forward.py, handlers/base.py)
    allowed_domains,     \* self.allowed_domains
    fwd,                 \* the last call of the handler: its request and its result
    \* ---- the middleware pipeline (middleware/__init__.py, server.py)
    middlewares,         \* app.middlewares: the names of the stages, outermost first
    auth_method,         \* security.authentication.method
    old_style,           \* the framework calls an unmarked middleware as a factory
    pipe,                \* the last request served by the application and its course
    answered,            \* cache key -> the first 2xx response the caching stage was given
    \* ---- ProxyServer (server.py, main.py) and validate_config (config.py)
    server,              \* the ProxyServer of the process and its listening socket
    validated,           \* the last call of validate_config: its argument and result
    keyed,               \* the last two calls of _get_cache_key: requests and keys
    tasks                \* the requests the application serves at the same time

cacheVars == <<ttl, max_size, cache, size, ret>>
rateVars == <<requests_per_minute, burst, clients, calls>>
routeVars == <<targets, path_routing, route>>
socksVars == <<require_auth, users, sockname, session>>
coreVars == <<server, validated, keyed, tasks>>
pipeVars == <<middlewares, auth_method, old_style, pipe, answered>>
httpVars == <<allowed_domains, fwd, pipeVars>>
vars == <<now, ttl, max_size, cache, size, ret,
          requests_per_minute, burst, clients, calls,
          targets, path_routing, route,
          require_auth, users, sockname, session,
          allowed_domains, fwd,
          middlewares, auth_method, old_style, pipe, answered,
          server, validated, keyed, tasks>>

(***************************************************************************)
(* Bounds of the model.                                                    *)
(***************************************************************************)
MaxTime == 3             \* the clock stops after MaxTime seconds
MaxValueHalfMB == 3      \* serialized value sizes: 1..MaxValueHalfMB half-megabytes
MaxBurst == 5            \* configured rate_limiting.burst ranges over 1..MaxBurst
MaxPathLen == 3          \* request paths: up to MaxPathLen characters
MaxRoutes == 2           \* path_routing: up to MaxRoutes entries
MaxMethods == 2          \* a SOCKS5 greeting offers up to MaxMethods methods
MaxRelay == 2            \* a tunnel relays up to MaxRelay bytes in each direction
MaxDomainLen == 2        \* allow-list patterns and domains: up to MaxDomainLen characters
MaxHeaders == 2          \* a forwarded request carries up to MaxHeaders headers
MaxPipelineBurst == 2    \* rate_limiting.burst of the pipeline ranges over 1..MaxPipelineBurst
MaxTargets == 3          \* weighted selection: lists of up to MaxTargets targets
MaxWeight == 3           \* weighted selection: weights 1..MaxWeight
MaxQuery == 2            \* items in a query string
MaxTasks == 2            \* requests the application serves at the same time
MaxInflight == 2         \* connections and requests in flight at the listener

Min(a, b) == IF a <= b THEN a ELSE b

(***************************************************************************)
(* The clock.  time.time() is read as a monotonic clock.                   *)
(***************************************************************************)
Advance == now < MaxTime /\ now' = now + 1

(***************************************************************************)
(* MemoryCache                                                             *)
(***************************************************************************)
MB == 1048576

Keys == {"k1", "k2", "k3"}

\* The configurations of caching.max_size (MB) explored.
CapacitiesMB == {1}

\* A value stands for the dict {status, headers, body}; bytes is the length of
\* its JSON serialization.
ValueSizes == {(k * MB) \div 2 : k \in 1..MaxValueHalfMB}
Values == [tag : {"a"}, bytes : ValueSizes]

\* Python's None, as a value of the same shape.
None == [tag |-> "None", bytes |-> 0]

\* The optional ttl argument of set: None, or a number of seconds.
NoTtl == -1
TtlArgs == {NoTtl, 0, 1}

\* The configurations of caching.ttl (seconds) explored.
DefaultTtls == {2}

\* len(json.dumps(value).encode('utf-8'))
EntrySize(value) == value.bytes

\* MemoryCache.__init__: max_size is given in MB.
CacheNew(ttl0, max_size_mb) ==
    [ttl |-> ttl0, max_size |-> max_size_mb * 1024 * 1024, cache |-> <<>>, size |-> 0]

\* key in self.cache
HasKey(c, key) == \E i \in 1..Len(c) : c[i].key = key

\* self.cache[key]
Entry(c, key) == c[CHOOSE i \in 1..Len(c) : c[i].key = key]

\* del self.cache[key]
DictDel(c, key) == SelectSeq(c, LAMBDA e : e.key # key)

\* self.cache[key] = entry: in place when the key is present, appended otherwise.
DictSet(c, key, entry) ==
    IF HasKey(c, key)
    THEN [i \in 1..Len(c) |-> IF c[i].key = key THEN entry ELSE c[i]]
    ELSE Append(c, entry)

\* A slip in delete: the entry is removed and the counter left as it was.
DeleteKeepSize(st, key) ==
    IF ~HasKey(st.cache, key)
    THEN [cache |-> st.cache, size |-> st.size, ok |-> FALSE]
    ELSE [cache |-> DictDel(st.cache, key), size |-> st.size, ok |-> TRUE]

\* MemoryCache.delete, on the pair st = [cache, size]; ok is its return value.
delete(st, key) ==
    IF ~HasKey(st.cache, key)
    THEN [cache |-> st.cache, size |-> st.size, ok |-> FALSE]
    ELSE [cache |-> DictDel(st.cache, key),
          size |-> st.size - Entry(st.cache, key).size,
          ok |-> TRUE]

\* sorted(..., key=lambda x: x[1]): a stable sort by expiration time.
RECURSIVE InsertByExpires(_, _)
InsertByExpires(sorted, e) ==
    IF sorted = <<>> THEN <<e>>
    ELSE IF Head(sorted).expires <= e.expires
         THEN <<Head(sorted)>> \o InsertByExpires(Tail(sorted), e)
         ELSE <<e>> \o sorted

RECURSIVE SortedByExpires(_)
SortedByExpires(c) ==
    IF c = <<>> THEN <<>>
    ELSE InsertByExpires(SortedByExpires(SubSeq(c, 1, Len(c) - 1)), c[Len(c)])

\* The loop of _evict over the sorted entries; st = [cache, size, evicted],
\* evicted being the entries deleted so far, in the order of their deletion.
RECURSIVE EvictLoop(_, _, _, _)
EvictLoop(st, entries, needed_space, cap) ==
    IF entries = <<>> THEN st
    ELSE IF st.size + needed_space <= cap THEN st
    ELSE LET d == delete(st, Head(entries).key)
         IN  EvictLoop([cache |-> d.cache, size |-> d.size,
                        evicted |-> IF d.ok
                                    THEN Append(st.evicted, Entry(st.cache, Head(entries).key))
                                    ELSE st.evicted],
                       Tail(entries), needed_space, cap)

\* A slip in _evict: the entries are walked in insertion order, unsorted.
EvictUnsorted(st, needed_space, cap) ==
    EvictLoop([cache |-> st.cache, size |-> st.size, evicted |-> <<>>],
              st.cache, needed_space, cap)

\* A slip in _evict: the loop stops after its first deletion.
EvictOnlyOne(st, needed_space, cap) ==
    EvictLoop([cache |-> st.cache, size |-> st.size, evicted |-> <<>>],
              SubSeq(SortedByExpires(st.cache), 1, 1), needed_space, cap)

\* MemoryCache._evict
_evict(st, needed_space, cap) ==
    EvictLoop([cache |-> st.cache, size |-> st.size, evicted |-> <<>>],
              SortedByExpires(st.cache), needed_space, cap)

\* expires of a new entry: time.time() + (ttl or self.ttl).
Expires(t, ttlArg, ttl0) ==
    t + (IF ttlArg = NoTtl \/ ttlArg = 0 THEN ttl0 ELSE ttlArg)

\* `if entry_size > self.max_size`: the entry is too large to store.
TooLarge(entry_size, cap) == entry_size > cap

\* The steps of set after the size check: drop the old entry, make room, insert.
Store(st, key, value, ttlArg, t, ttl0, cap) ==
    LET entry_size == EntrySize(value)
        d  == IF HasKey(st.cache, key) THEN delete(st, key) ELSE st
        s1 == [cache |-> d.cache, size |-> d.size, evicted |-> <<>>]
        s2 == IF s1.size + entry_size > cap
              THEN _evict(s1, entry_size, cap) ELSE s1
        entry == [key |-> key, value |-> value,
                  expires |-> Expires(t, ttlArg, ttl0), size |-> entry_size]
    IN [cache |-> DictSet(s2.cache, key, entry),
        size |-> s2.size + entry_size,
        ok |-> TRUE,
        evicted |-> s2.evicted]

\* A slip in set: the old entry is removed before the size check.
SetDeleteFirst(st, key, value, ttlArg, t, ttl0, cap) ==
    LET d == delete(st, key) IN
    IF TooLarge(EntrySize(value), cap)
    THEN [cache |-> d.cache, size |-> d.size, ok |-> FALSE, evicted |-> <<>>]
    ELSE Store(st, key, value, ttlArg, t, ttl0, cap)

\* MemoryCache.set on st = [cache, size]: the new pair, the return value and
\* the entries _evict removed.
set(st, key, value, ttlArg, t, ttl0, cap) ==
    IF TooLarge(EntrySize(value), cap)
    THEN [cache |-> st.cache, size |-> st.size, ok |-> FALSE, evicted |-> <<>>]
    ELSE Store(st, key, value, ttlArg, t, ttl0, cap)

\* `time.time() > entry['expires']`
IsExpired(t, entry) == t > entry.expires

\* A slip in get: an expired entry is reported absent but left in the dict.
GetKeepExpired(st, key, t) ==
    IF ~HasKey(st.cache, key) \/ IsExpired(t, Entry(st.cache, key))
    THEN [cache |-> st.cache, size |-> st.size, value |-> None,
          expired |-> HasKey(st.cache, key)]
    ELSE [cache |-> st.cache, size |-> st.size,
          value |-> Entry(st.cache, key).value, expired |-> FALSE]

\* MemoryCache.get on st = [cache, size]: the new pair, the returned value and
\* whether an expired entry was found.
get(st, key, t) ==
    IF ~HasKey(st.cache, key)
    THEN [cache |-> st.cache, size |-> st.size, value |-> None, expired |-> FALSE]
    ELSE IF IsExpired(t, Entry(st.cache, key))
    THEN LET d == delete(st, key)
         IN  [cache |-> d.cache, size |-> d.size, value |-> None, expired |-> TRUE]
    ELSE [cache |-> st.cache, size |-> st.size,
          value |-> Entry(st.cache, key).value, expired |-> FALSE]

NoCall == [op |-> "none", key |-> "", value |-> None, ttl |-> NoTtl, ok |-> FALSE,
           evicted |-> <<>>, expired |-> FALSE]

CacheInit ==
    /\ ttl \in DefaultTtls
    /\ \E mb \in CapacitiesMB :
         /\ max_size = CacheNew(ttl, mb).max_size
         /\ cache = CacheNew(ttl, mb).cache
         /\ size = CacheNew(ttl, mb).size
    /\ ret = NoCall

Set(key, value, ttlArg) ==
    LET r == set([cache |-> cache, size |-> size], key, value, ttlArg, now, ttl, max_size)
    IN  /\ cache' = r.cache
        /\ size' = r.size
        /\ ret' = [op |-> "set", key |-> key, value |-> value, ttl |-> ttlArg, ok |-> r.ok,
                   evicted |-> r.evicted, expired |-> FALSE]
        /\ UNCHANGED <<now, ttl, max_size>>
        /\ UNCHANGED <<rateVars, routeVars, coreVars, socksVars, httpVars>>

Get(key) ==
    LET r == get([cache |-> cache, size |-> size], key, now)
    IN  /\ cache' = r.cache
        /\ size' = r.size
        /\ ret' = [op |-> "get", key |-> key, value |-> r.value, ttl |-> NoTtl,
                   ok |-> r.value # None,
                   evicted |-> <<>>, expired |-> r.expired]
        /\ UNCHANGED <<now, ttl, max_size>>
        /\ UNCHANGED <<rateVars, routeVars, coreVars, socksVars, httpVars>>

Delete(key) ==
    LET r == delete([cache |-> cache, size |-> size], key)
    IN  /\ cache' = r.cache
        /\ size' = r.size
        /\ ret' = [op |-> "delete", key |-> key, value |-> None, ttl |-> NoTtl, ok |-> r.ok,
                   evicted |-> <<>>, expired |-> FALSE]
        /\ UNCHANGED <<now, ttl, max_size>>
        /\ UNCHANGED <<rateVars, routeVars, coreVars, socksVars, httpVars>>

CacheTick ==
    /\ Advance
    /\ ret' = NoCall
    /\ UNCHANGED <<ttl, max_size, cache, size>>
    /\ UNCHANGED <<rateVars, routeVars, coreVars, socksVars, httpVars>>

\* The cache of a server that has not built one (_cache is None).
CacheIdle == ttl = 0 /\ max_size = 0 /\ cache = <<>> /\ size = 0 /\ ret = NoCall

CacheNext ==
    \/ \E key \in Keys, value \in Values, ttlArg \in TtlArgs : Set(key, value, ttlArg)
    \/ \E key \in Keys : Get(key)
    \/ \E key \in Keys : Delete(key)
    \/ CacheTick

(***************************************************************************)
(* RateLimiter                                                             *)
(***************************************************************************)
\* Tokens are counted in sixtieths: time_passed * (requests_per_minute / 60.0)
\* is then the whole number time_passed * requests_per_minute, and 1.0 is 60.
TokenScale == 60

ClientIds == {"10.0.0.1", "10.0.0.2"}

\* The configurations of rate_limiting.requests_per_minute explored.
Rates == {30, 60}

\* A slip in is_allowed: the refilled count is not capped at the burst size.
RefillUncapped(tokens, time_passed, rpm, b) == tokens + time_passed * rpm

\* min(self.burst, client['tokens'] + token_refill)
Refill(tokens, time_passed, rpm, b) ==
    Min(b * TokenScale, tokens + time_passed * rpm)

\* A slip in is_allowed: `>` for `>=`, exactly one token is not enough.
HasTokenStrict(tokens) == tokens > TokenScale

\* client['tokens'] >= 1.0
HasToken(tokens) == tokens >= TokenScale

\* A slip in is_allowed: a denied call leaves the bucket as it found it.
DeniedStale(client, tokens, t) == client

\* The bucket a denied call leaves: lines 58-59 have stored the refilled count
\* and the time of the call, last_request keeps its value.
Denied(client, tokens, t) ==
    [last_request |-> client.last_request, tokens |-> tokens, updated_at |-> t]

\* RateLimiter.is_allowed: the new self.clients and the return value.
is_allowed(cl, client_id, t, rpm, b) ==
    IF client_id \notin DOMAIN cl
    THEN [clients |-> [x \in DOMAIN cl \cup {client_id} |->
                         IF x = client_id
                         THEN [last_request |-> t, tokens |-> b * TokenScale,
                               updated_at |-> t]
                         ELSE cl[x]],
          allowed |-> TRUE]
    ELSE LET client == cl[client_id]
             time_passed == t - client.updated_at
             tokens == Refill(client.tokens, time_passed, rpm, b)
         IN  IF HasToken(tokens)
             THEN [clients |-> [cl EXCEPT ![client_id] =
                                  [last_request |-> t, tokens |-> tokens - TokenScale,
                                   updated_at |-> t]],
                   allowed |-> TRUE]
             ELSE [clients |-> [cl EXCEPT ![client_id] = Denied(client, tokens, t)],
                   allowed |-> FALSE]

\* What is remembered of a client's calls of is_allowed, for the claims:
\*   allowed  the return value of its last call;
\*   n        while every call so far was made at the time of its first call,
\*            the number of these calls (counted up to burst + 2), else 0;
\*   wait     "denied" when the last call was denied; "second" when the last
\*            call came exactly one second after a denied call and straight
\*            after it; "third" when the last call came straight after a
\*            "second" call that was admitted, at the same time; else "none";
\*   denials  0 when the last call was admitted, 2 when it was denied and came
\*            later than a denied call and straight after it, else 1.
NoCalls == [allowed |-> FALSE, n |-> 0, wait |-> "none", denials |-> 0]

\* The last call of the client was denied.
LastDenied(h) == h.wait # "none" /\ ~h.allowed

\* cl is self.clients before the call made at time t.
Remember(h, cl, client_id, t, allowed, b) ==
    [allowed |-> allowed,
     n |-> IF client_id \notin DOMAIN cl THEN 1
           ELSE IF h.n > 0 /\ t = cl[client_id].updated_at
                THEN Min(h.n + 1, b + 2) ELSE 0,
     wait |-> IF client_id \notin DOMAIN cl THEN "none"
              ELSE IF LastDenied(h) /\ t = cl[client_id].updated_at + 1 THEN "second"
              ELSE IF h.wait = "second" /\ h.allowed /\ t = cl[client_id].updated_at
                   THEN "third"
              ELSE IF ~allowed THEN "denied"
              ELSE "none",
     denials |-> IF allowed THEN 0
                 ELSE IF LastDenied(h) /\ t > cl[client_id].updated_at THEN 2
                 ELSE 1]

RateInit ==
    /\ requests_per_minute \in Rates
    /\ burst \in 1..MaxBurst
    /\ clients = <<>>
    /\ calls = [c \in ClientIds |-> NoCalls]

\* The rate limiter of a server that has not built one (_rate_limiter is None).
RateIdle ==
    /\ requests_per_minute = 0
    /\ burst = 0
    /\ clients = <<>>
    /\ calls = [c \in ClientIds |-> NoCalls]

IsAllowed(client_id) ==
    LET r == is_allowed(clients, client_id, now, requests_per_minute, burst)
    IN  /\ clients' = r.clients
        /\ calls' = [calls EXCEPT ![client_id] =
                      Remember(@, clients, client_id, now, r.allowed, burst)]
        /\ UNCHANGED <<now, requests_per_minute, burst>>
        /\ UNCHANGED <<cacheVars, routeVars, coreVars, socksVars, httpVars>>

RateTick == Advance /\ UNCHANGED <<cacheVars, rateVars, routeVars, coreVars, socksVars, httpVars>>

RateNext ==
    \/ \E client_id \in ClientIds : IsAllowed(client_id)
    \/ RateTick

(***************************************************************************)
(* ReverseProxyHandler: the target registry and path routing.  A string is *)
(* the sequence of its characters.                                         *)
(***************************************************************************)
Chars == {"/", "a"}

\* Every string of at most n characters.
RECURSIVE Strings(_)
Strings(n) ==
    IF n = 0 THEN {<< >>}
    ELSE Strings(n - 1) \cup {Append(x, c) : x \in {y \in Strings(n - 1) : Len(y) = n - 1},
                                             c \in Chars}

S_api == <<"/", "a", "p", "i">>
S_api_v2 == <<"/", "a", "p", "i", "/", "v", "2">>
S_api_v2_users == <<"/", "a", "p", "i", "/", "v", "2", "/", "u", "s", "e", "r", "s">>
S_api_other == <<"/", "a", "p", "i", "/", "o", "t", "h", "e", "r">>
S_unmatched == <<"/", "u", "n", "m", "a", "t", "c", "h", "e", "d">>

\* The request paths looked up.
Paths == Strings(MaxPathLen) \cup {S_api_v2_users, S_api_other, S_unmatched}

\* Target.__init__
Target(name, host, port, ssl, weight) ==
    [name |-> name, host |-> host, port |-> port, ssl |-> ssl, weight |-> weight,
     scheme |-> IF ssl THEN "https" ELSE "http"]

\* Optional[Target]: None, as a value of the same shape.
NoTarget == [name |-> "None", host |-> "", port |-> 0, ssl |-> FALSE, weight |-> 0,
             scheme |-> ""]

\* The configurations of proxy.reverse.targets explored: both services, or
\* svc1 alone (path_routing may then name a target that is not registered).
TargetConfigs ==
    { [n \in {"svc1", "svc2"} |-> Target(n, "10.1.0.1", 8080, FALSE, 1)],
      [n \in {"svc1"} |-> Target(n, "10.1.0.1", 8080, FALSE, 1)] }

\* The table of the documentation: {"/api": "svc1", "/api/v2": "svc2"}.
ApiTable == << [prefix |-> S_api, target |-> "svc1"],
               [prefix |-> S_api_v2, target |-> "svc2"] >>

\* The prefixes the generated tables are made of.
Prefixes == Strings(2) \cup {<<"/", "a", "/">>}

\* Every table of at most n entries with distinct prefixes.
RECURSIVE Tables(_)
Tables(n) ==
    IF n = 0 THEN {<< >>}
    ELSE Tables(n - 1) \cup
         {Append(t, [prefix |-> p, target |-> name]) :
            t \in {u \in Tables(n - 1) : Len(u) = n - 1},
            p \in Prefixes, name \in {"svc1", "svc2"}} 

DistinctPrefixes(t) == \A i, j \in 1..Len(t) : t[i].prefix = t[j].prefix => i = j

\* The configurations of proxy.reverse.path_routing explored.
RoutingTables == {t \in Tables(MaxRoutes) : DistinctPrefixes(t)} \cup {ApiTable}

\* str.startswith
startswith(path, prefix) ==
    /\ Len(prefix) <= Len(path)
    /\ SubSeq(path, 1, Len(prefix)) = prefix

\* The loop of _get_target_for_path over the items of path_routing;
\* matching is [found, prefix, target], found = FALSE standing for None.
RECURSIVE MatchLoop(_, _, _)
MatchLoop(entries, path, matching) ==
    IF entries = << >> THEN matching
    ELSE LET e == Head(entries)
             m == IF startswith(path, e.prefix)
                     /\ (~matching.found \/ Len(e.prefix) > Len(matching.prefix))
                  THEN [found |-> TRUE, prefix |-> e.prefix, target |-> e.target]
                  ELSE matching
         IN  MatchLoop(Tail(entries), path, m)

NoMatch == [found |-> FALSE, prefix |-> << >>, target |-> ""]

\* self.targets.get(target_name)
TargetsGet(tgts, name) == IF name \in DOMAIN tgts THEN tgts[name] ELSE NoTarget

\* A slip in _get_target_for_path: the first matching prefix is kept.
RECURSIVE FirstMatch(_, _)
FirstMatch(entries, path) ==
    IF entries = << >> THEN NoMatch
    ELSE IF startswith(path, Head(entries).prefix)
         THEN [found |-> TRUE, prefix |-> Head(entries).prefix,
               target |-> Head(entries).target]
         ELSE FirstMatch(Tail(entries), path)

GetTargetFirstMatch(routing, tgts, path) ==
    LET m == FirstMatch(routing, path)
    IN  IF ~m.found THEN NoTarget ELSE TargetsGet(tgts, m.target)

\* ReverseProxyHandler._get_target_for_path
_get_target_for_path(routing, tgts, path) ==
    LET m == MatchLoop(routing, path, NoMatch)
    IN  IF ~m.found THEN NoTarget ELSE TargetsGet(tgts, m.target)

NoLookup == [op |-> "none", path |-> << >>, target |-> NoTarget]

RouteInit ==
    /\ targets \in TargetConfigs
    /\ path_routing \in RoutingTables
    /\ route = NoLookup

\* The registry of a server that is not in reverse mode.
RouteIdle ==
    /\ targets = << >>
    /\ path_routing = << >>
    /\ route = NoLookup

GetTargetForPath(path) ==
    /\ route' = [op |-> "lookup", path |-> path,
                 target |-> _get_target_for_path(path_routing, targets, path)]
    /\ UNCHANGED <<now, targets, path_routing>>
    /\ UNCHANGED <<cacheVars, rateVars, socksVars, coreVars, httpVars>>

RouteNext == \E path \in Paths : GetTargetForPath(path)

(***************************************************************************)
(* Socks5ProxyHandler.  Bytes are the numbers 0..255; what is written to a *)
(* stream is the sequence of its bytes.                                    *)
(***************************************************************************)
VERSION == 5
NO_AUTH == 0
USERNAME_PASSWORD == 2
NO_ACCEPTABLE_METHODS == 255
CONNECT == 1
BIND == 2
UDP_ASSOCIATE == 3
IPV4 == 1
DOMAIN_NAME == 3
IPV6 == 4
SUCCEEDED == 0
GENERAL_FAILURE == 1
COMMAND_NOT_SUPPORTED == 7
ADDRESS_TYPE_NOT_SUPPORTED == 8
AUTH_VERSION == 1

\* ---- address strings: socket.inet_pton ------------------------------------
Digits == <<"0", "1", "2", "3", "4", "5", "6", "7", "8", "9",
            "a", "b", "c", "d", "e", "f">>

\* The value of a digit character in the given base, -1 when it is none.
DigitValue(ch, base) ==
    IF \E i \in 1..base : Digits[i] = ch
    THEN (CHOOSE i \in 1..base : Digits[i] = ch) - 1
    ELSE -1

\* The number a string of digits denotes, -1 when it is empty or ill-formed.
RECURSIVE ParseNumber(_, _)
ParseNumber(str, base) ==
    IF str = << >> THEN -1
    ELSE LET d == DigitValue(str[Len(str)], base)
             rest == SubSeq(str, 1, Len(str) - 1)
         IN  IF d < 0 THEN -1
             ELSE IF rest = << >> THEN d
             ELSE LET r == ParseNumber(rest, base)
                  IN  IF r < 0 THEN -1 ELSE r * base + d

\* str.split(sep)
RECURSIVE Split(_, _)
Split(str, sep) ==
    IF \A i \in 1..Len(str) : str[i] # sep THEN <<str>>
    ELSE LET k == CHOOSE i \in 1..Len(str) :
                     str[i] = sep /\ \A j \in 1..(i - 1) : str[j] # sep
         IN  <<SubSeq(str, 1, k - 1)>> \o Split(SubSeq(str, k + 1, Len(str)), sep)

\* A failed conversion (inet_pton raises).
Invalid == <<-1>>

\* socket.inet_pton(socket.AF_INET, str): four decimal numbers 0..255.
inet_pton4(str) ==
    LET parts == Split(str, ".")
        nums == [i \in 1..Len(parts) |->
                   IF Len(parts[i]) \in 1..3 THEN ParseNumber(parts[i], 10) ELSE -1]
    IN  IF Len(parts) = 4 /\ \A i \in 1..4 : nums[i] \in 0..255
        THEN nums ELSE Invalid

\* The two bytes of each 16-bit group, in order.
RECURSIVE GroupBytes(_)
GroupBytes(groups) ==
    IF groups = << >> THEN << >>
    ELSE <<Head(groups) \div 256, Head(groups) % 256>> \o GroupBytes(Tail(groups))

Zeros(n) == [i \in 1..n |-> 0]

\* The hexadecimal groups of one side of an IPv6 address ("" has none).
HexGroups(str) ==
    IF str = << >> THEN << >>
    ELSE LET parts == Split(str, ":")
         IN  [i \in 1..Len(parts) |->
                IF Len(parts[i]) \in 1..4 THEN ParseNumber(parts[i], 16) ELSE -1]

\* The place of the first "::" in the string, 0 when there is none.
DoubleColon(str) ==
    IF \E i \in 1..(Len(str) - 1) : str[i] = ":" /\ str[i + 1] = ":"
    THEN CHOOSE i \in 1..(Len(str) - 1) :
            /\ str[i] = ":" /\ str[i + 1] = ":"
            /\ \A j \in 1..(i - 1) : ~(str[j] = ":" /\ str[j + 1] = ":")
    ELSE 0

\* socket.inet_pton(socket.AF_INET6, str): eight hexadecimal groups, one run
\* of zero groups possibly written "::" (no dotted-quad tail, no scope).
inet_pton6(str) ==
    LET k == DoubleColon(str)
        left == IF k = 0 THEN HexGroups(str) ELSE HexGroups(SubSeq(str, 1, k - 1))
        right == IF k = 0 THEN << >> ELSE HexGroups(SubSeq(str, k + 2, Len(str)))
        n == Len(left) + Len(right)
        ok == /\ \A i \in 1..Len(left) : left[i] >= 0
              /\ \A i \in 1..Len(right) : right[i] >= 0
              /\ IF k = 0 THEN n = 8 ELSE n <= 7
    IN  IF ok THEN GroupBytes(left \o Zeros(8 - n) \o right) ELSE Invalid

\* ':' in bind_addr
HasColon(str) == \E i \in 1..Len(str) : str[i] = ":"

\* struct.pack('!H', port)
PackPort(port) == <<port \div 256, port % 256>>

ADDR_ANY == <<"0", ".", "0", ".", "0", ".", "0">>
ADDR_LOOPBACK4 == <<"1", "2", "7", ".", "0", ".", "0", ".", "1">>
ADDR_LOOPBACK6 == <<":", ":", "1">>

\* A slip in _send_reply: the address type byte is always IPV4.
ReplyBytesAlwaysV4(reply_code, bind_addr, bind_port) ==
    LET addr_bytes == IF HasColon(bind_addr) THEN inet_pton6(bind_addr)
                      ELSE inet_pton4(bind_addr)
    IN  IF addr_bytes = Invalid THEN << >>
        ELSE <<VERSION, reply_code, 0, IPV4>> \o addr_bytes \o PackPort(bind_port)

\* _send_reply: the bytes written; none when the conversion raises, which
\* _send_reply catches and logs.
ReplyBytes(reply_code, bind_addr, bind_port) ==
    LET atyp == IF HasColon(bind_addr) THEN IPV6 ELSE IPV4
        addr_bytes == IF HasColon(bind_addr) THEN inet_pton6(bind_addr)
                      ELSE inet_pton4(bind_addr)
    IN  IF addr_bytes = Invalid THEN << >>
        ELSE <<VERSION, reply_code, 0, atyp>> \o addr_bytes \o PackPort(bind_port)

\* _send_reply with its defaults bind_addr = '0.0.0.0', bind_port = 0.
DefaultReply(reply_code) == ReplyBytes(reply_code, ADDR_ANY, 0)

\* ---- authenticate_user (proxy/auth.py) ------------------------------------
\* A user is [username, bcrypt, secret]: bcrypt tells whether password_hash
\* starts with '$2'; secret is the password the hash stands for.
UserConfigs ==
    { << [username |-> "alice", bcrypt |-> FALSE, secret |-> "pw"] >>,
      << [username |-> "alice", bcrypt |-> TRUE, secret |-> "pw"] >> }

Usernames == {"alice", "bob"}
Passwords == {"pw", "no"}

\* bcrypt.checkpw
checkpw(password, user) == password = user.secret

authenticate_user(us, username, password) ==
    IF \A i \in 1..Len(us) : us[i].username # username THEN FALSE
    ELSE LET user == us[CHOOSE i \in 1..Len(us) :
                           /\ us[i].username = username
                           /\ \A j \in 1..(i - 1) : us[j].username # username]
         IN  IF user.bcrypt THEN checkpw(password, user)
             ELSE user.secret = password

\* ---- the session ----------------------------------------------------------
\* What the client sends first.  hdr is FALSE when the stream ends before the
\* two header bytes; nmethods is the count announced, methods the method
\* bytes that arrive (fewer than announced when the stream ends early).
MethodLists ==
    UNION {[1..n -> {NO_AUTH, 1, USERNAME_PASSWORD}] : n \in 0..MaxMethods}

Greetings ==
    {[hdr |-> FALSE, version |-> 0, nmethods |-> 0, methods |-> << >>]}
    \cup {g \in [hdr : {TRUE}, version : {4, VERSION},
                  nmethods : 0..MaxMethods, methods : MethodLists] :
            Len(g.methods) <= g.nmethods}

NoGreeting == [hdr |-> FALSE, version |-> -1, nmethods |-> 0, methods |-> << >>]

\* The username/password sub-negotiation the client sends.  complete is FALSE
\* when the stream ends early or a field does not decode as UTF-8.
AuthRequests ==
    [ver : {AUTH_VERSION, 2}, complete : BOOLEAN,
     username : Usernames, password : Passwords]

\* The request the client sends.  hdr is FALSE when the stream ends before
\* the four header bytes; complete is FALSE when it ends before the address
\* and the port are read whole, or the domain name does not decode.
Requests ==
    [hdr : BOOLEAN, version : {4, VERSION},
     cmd : {CONNECT, BIND, UDP_ASSOCIATE, 9},
     atyp : {IPV4, DOMAIN_NAME, IPV6, 5}, complete : BOOLEAN]

NoRequest ==
    [hdr |-> FALSE, version |-> -1, cmd |-> 0, atyp |-> 0, complete |-> FALSE]

NoAuthRequest == [ver |-> -1, complete |-> FALSE, username |-> "", password |-> ""]

\* The two _forward tasks of a relay, by the direction they are created with.
Directions == {"client -> dest", "dest -> client"}

\* The local address of the accepted connection, as socket.getsockname()
\* gives it: (host, port) on an IPv4 socket, (host, port, flowinfo, scope_id)
\* on an IPv6 socket.
SockNames ==
    { <<ADDR_LOOPBACK4, 1080>>, <<ADDR_LOOPBACK6, 1080, 0, 0>> }

\* A slip in _handshake: no-auth is accepted although authentication is
\* required.
SelectMethodNoAuthFirst(req_auth, methods) ==
    IF \E i \in 1..Len(methods) : methods[i] = NO_AUTH THEN NO_AUTH
    ELSE IF req_auth /\ \E i \in 1..Len(methods) : methods[i] = USERNAME_PASSWORD
         THEN USERNAME_PASSWORD
    ELSE NO_ACCEPTABLE_METHODS

\* The method _handshake selects.
SelectMethod(req_auth, methods) ==
    IF req_auth /\ \E i \in 1..Len(methods) : methods[i] = USERNAME_PASSWORD
    THEN USERNAME_PASSWORD
    ELSE IF (\E i \in 1..Len(methods) : methods[i] = NO_AUTH) /\ ~req_auth
    THEN NO_AUTH
    ELSE NO_ACCEPTABLE_METHODS

\* pc: where handle_connection stands; out: the bytes written to the client;
\* closed: writer.close() was called; up: the upstream connection ("none",
\* "open", "closed"); up_out: the bytes written to the upstream; up_in: the
\* bytes read from it; cl_in: the bytes read from the client by the relay.
\* greet_read: the bytes of the greeting _handshake has read.  The other
\* fields remember the inputs: the greeting, the sub-negotiation, the
\* request, the outcome of the dial, the direction of the relay that
\* completed first and the last step taken.
NewSession ==
    [pc |-> "greeting", out |-> << >>, closed |-> FALSE,
     up |-> "none", up_out |-> << >>, up_in |-> << >>, cl_in |-> << >>,
     greet |-> NoGreeting, auth |-> NoAuthRequest, method |-> -1,
     req |-> NoRequest, dial |-> "none", ended |-> "none",
     greet_read |-> 0, last |-> "accept"]

\* handle_connection's finally: writer.close().
Closed(ss) == [ss EXCEPT !.pc = "closed", !.closed = TRUE]

\* writer.write(data)
Write(ss, data) == [ss EXCEPT !.out = @ \o data]

SocksInit ==
    /\ require_auth \in BOOLEAN
    /\ users \in UserConfigs
    /\ sockname \in SockNames
    /\ session = NewSession

\* The handler of a server that is not in socks5 mode.
SocksIdle ==
    /\ require_auth = FALSE
    /\ users = << >>
    /\ sockname = << >>
    /\ session = [NewSession EXCEPT !.pc = "off"]

\* A slip in _handshake: the version byte is not looked at.
VersionAny(version) == TRUE

\* `version != self.VERSION` of _handshake, negated.
VersionOk(version) == version = VERSION

\* A slip in _handshake: the methods are taken as they come, reader.read for
\* reader.readexactly.
MethodsReadShort(g) == TRUE

\* reader.readexactly(nmethods) returns: the stream holds all the methods
\* announced.
MethodsRead(g) == Len(g.methods) = g.nmethods

\* The bytes of the greeting _handshake reads: none that count when the
\* header is cut short, the header alone for another version, else the
\* header and the methods that arrive, at most the number announced.
GreetingBytes(g) ==
    IF ~g.hdr THEN 0
    ELSE IF ~VersionOk(g.version) THEN 2
    ELSE 2 + Len(g.methods)

\* _handshake up to the method selection.  drain_ok is FALSE when drain()
\* raises because the client is gone.
Handshake(g, drain_ok) ==
    /\ session.pc = "greeting"
    /\ LET ss == [session EXCEPT !.greet = g, !.greet_read = GreetingBytes(g),
                                 !.last = "handshake"]
       IN  session' =
             IF ~g.hdr THEN Closed(ss)
             ELSE IF ~VersionOk(g.version)
             THEN Closed(Write(ss, <<VERSION, NO_ACCEPTABLE_METHODS>>))
             ELSE IF ~MethodsRead(g) THEN Closed(ss)
             ELSE LET m == SelectMethod(require_auth, g.methods)
                      w == Write([ss EXCEPT !.method = m], <<VERSION, m>>)
                  IN  IF m = NO_ACCEPTABLE_METHODS \/ ~drain_ok THEN Closed(w)
                      ELSE IF m = USERNAME_PASSWORD THEN [w EXCEPT !.pc = "auth"]
                      ELSE [w EXCEPT !.pc = "request"]
    /\ UNCHANGED <<now, require_auth, users, sockname>>
    /\ UNCHANGED <<cacheVars, rateVars, routeVars, coreVars, httpVars>>

\* A slip in _authenticate: the version of the sub-negotiation is not looked
\* at.
AuthStatusAnyVersion(ver, ok) == IF ok THEN 0 ELSE 1

\* The status _authenticate replies with: 0x00 success, 0x01 failure.
AuthStatus(ver, ok) == IF ver = AUTH_VERSION /\ ok THEN 0 ELSE 1

\* _authenticate, and the rest of _handshake after it.  A drain() that
\* raises inside the try block reaches the handler, which writes the failure
\* status.
Authenticate(a, drain_ok) ==
    /\ session.pc = "auth"
    /\ LET ss == [session EXCEPT !.auth = a, !.last = "authenticate"]
           failure == <<AUTH_VERSION, 1>>
           ok == authenticate_user(users, a.username, a.password)
           status == <<AUTH_VERSION, AuthStatus(a.ver, ok)>>
       IN  session' =
             IF a.ver = AUTH_VERSION /\ ~a.complete THEN Closed(Write(ss, failure))
             ELSE IF ~drain_ok THEN Closed(Write(Write(ss, status), failure))
             ELSE IF status = failure THEN Closed(Write(ss, failure))
             ELSE [Write(ss, status) EXCEPT !.pc = "request"]
    /\ UNCHANGED <<now, require_auth, users, sockname>>
    /\ UNCHANGED <<cacheVars, rateVars, routeVars, coreVars, httpVars>>

\* A slip in _process_request: BIND is dispatched like CONNECT.
AttemptedWithBind(cmd) == cmd \in {CONNECT, BIND}

\* The commands _process_request attempts: _handle_bind and
\* _handle_udp_associate only reply COMMAND_NOT_SUPPORTED.
Attempted(cmd) == cmd = CONNECT

\* A slip in _process_request: no address type is refused.
SupportedAtypAny(atyp) == TRUE

\* The address types _process_request reads an address for.
SupportedAtyp(atyp) == atyp \in {IPV4, DOMAIN_NAME, IPV6}

\* _process_request up to the dispatch on the command.
ProcessRequest(r) ==
    /\ session.pc = "request"
    /\ LET ss == [session EXCEPT !.req = r, !.last = "request"]
       IN  session' =
             IF ~r.hdr \/ r.version # VERSION
             THEN Closed(Write(ss, DefaultReply(GENERAL_FAILURE)))
             ELSE IF ~SupportedAtyp(r.atyp)
             THEN Closed(Write(ss, DefaultReply(ADDRESS_TYPE_NOT_SUPPORTED)))
             ELSE IF ~r.complete
             THEN Closed(Write(ss, DefaultReply(GENERAL_FAILURE)))
             ELSE IF Attempted(r.cmd) THEN [ss EXCEPT !.pc = "connecting"]
             ELSE Closed(Write(ss, DefaultReply(COMMAND_NOT_SUPPORTED)))
    /\ UNCHANGED <<now, require_auth, users, sockname>>
    /\ UNCHANGED <<cacheVars, rateVars, routeVars, coreVars, httpVars>>

\* _handle_connect from open_connection to the reply.  connected is the
\* outcome of asyncio.open_connection.
HandleConnect(connected) ==
    /\ session.pc = "connecting"
    /\ LET ss == [session EXCEPT !.last = "connect",
                                 !.dial = IF connected THEN "ok" ELSE "failed"]
       IN  session' =
             IF ~connected
             THEN Closed(Write(ss, DefaultReply(GENERAL_FAILURE)))
             ELSE IF Len(sockname) # 2
             \* local_addr, local_port = ...: ValueError, too many values
             THEN Closed(Write([ss EXCEPT !.up = "open"], DefaultReply(GENERAL_FAILURE)))
             ELSE [Write([ss EXCEPT !.up = "open"],
                         ReplyBytes(SUCCEEDED, sockname[1], sockname[2]))
                     EXCEPT !.pc = "relaying"]
    /\ UNCHANGED <<now, require_auth, users, sockname>>
    /\ UNCHANGED <<cacheVars, rateVars, routeVars, coreVars, httpVars>>

\* The chunks reader.read(8192) returns.
Chunks == UNION {[1..n -> {0, 255}] : n \in 1..MaxRelay}

\* A slip in _forward: the chunk goes in front of what was written before.
ForwardOutOfOrder(written, data) == data \o written

\* _forward: writer.write(data) of the chunk just read.
_forward(written, data) == written \o data

\* _forward, client -> dest: one chunk read from the client is written to
\* the upstream.
ForwardToDest(data) ==
    /\ session.pc = "relaying"
    /\ Len(session.cl_in) + Len(data) <= MaxRelay
    /\ session' = [session EXCEPT !.cl_in = @ \o data,
                                  !.up_out = _forward(@, data),
                                  !.last = "forward"]
    /\ UNCHANGED <<now, require_auth, users, sockname>>
    /\ UNCHANGED <<cacheVars, rateVars, routeVars, coreVars, httpVars>>

\* _forward, dest -> client: one chunk read from the upstream is written to
\* the client.
ForwardToClient(data) ==
    /\ session.pc = "relaying"
    /\ Len(session.up_in) + Len(data) <= MaxRelay
    /\ session' = [session EXCEPT !.up_in = @ \o data,
                                  !.out = _forward(@, data),
                                  !.last = "forward"]
    /\ UNCHANGED <<now, require_auth, users, sockname>>
    /\ UNCHANGED <<cacheVars, rateVars, routeVars, coreVars, httpVars>>

\* A slip in _forward_data: nothing but the finally of the _forward that
\* completed is run, which closes the writer of its own direction.
ForwardDataNoClose(ss, direction) ==
    [ss EXCEPT !.ended = direction,
               !.up = IF direction = "client -> dest" THEN "closed" ELSE @,
               !.closed = IF direction = "dest -> client" THEN TRUE ELSE @]

\* _forward_data from the return of asyncio.wait: the _forward of the
\* direction has completed, by end of stream or by an exception it caught,
\* and its finally has closed its writer; the pending _forward is cancelled
\* where it waits, and its finally closes its writer; dest_writer.close().
_forward_data(ss, direction) ==
    [ss EXCEPT !.ended = direction, !.up = "closed", !.closed = TRUE]

\* _forward_data once either direction has completed: the other is
\* cancelled, the upstream is closed, and handle_connection closes the
\* client.  When dest_writer.wait_closed() raises, the handler of
\* _handle_connect calls _send_reply with GENERAL_FAILURE first.
RelayDone(direction, wait_closed_ok) ==
    /\ session.pc = "relaying"
    /\ LET ss == [_forward_data(session, direction) EXCEPT !.last = "relay_done"]
       IN  session' = IF wait_closed_ok THEN Closed(ss)
                      ELSE Closed(Write(ss, DefaultReply(GENERAL_FAILURE)))
    /\ UNCHANGED <<now, require_auth, users, sockname>>
    /\ UNCHANGED <<cacheVars, rateVars, routeVars, coreVars, httpVars>>

SocksNext ==
    \/ \E g \in Greetings, drain_ok \in BOOLEAN : Handshake(g, drain_ok)
    \/ \E a \in AuthRequests, drain_ok \in BOOLEAN : Authenticate(a, drain_ok)
    \/ \E r \in Requests : ProcessRequest(r)
    \/ \E connected \in BOOLEAN : HandleConnect(connected)
    \/ \E data \in Chunks : ForwardToDest(data)
    \/ \E data \in Chunks : ForwardToClient(data)
    \/ \E direction \in Directions, wait_closed_ok \in BOOLEAN :
          RelayDone(direction, wait_closed_ok)

(***************************************************************************)
(* Text that is decoded (header values, credentials) is a sequence of code *)
(* points; 'A' is 65, 'a' is 97, '0' is 48.                                *)
(***************************************************************************)
\* str.lower()
Lower(str) == [i \in 1..Len(str) |-> IF str[i] \in 65..90 THEN str[i] + 32 ELSE str[i]]

\* str.split(sep, 1)
SplitOnce(str, sep) ==
    IF \A i \in 1..Len(str) : str[i] # sep THEN <<str>>
    ELSE LET k == CHOOSE i \in 1..Len(str) :
                     str[i] = sep /\ \A j \in 1..(i - 1) : str[j] # sep
         IN  <<SubSeq(str, 1, k - 1), SubSeq(str, k + 1, Len(str))>>

\* The value of a character of the base64 alphabet, -1 for any other.
B64Value(c) ==
    IF c \in 65..90 THEN c - 65
    ELSE IF c \in 97..122 THEN c - 71
    ELSE IF c \in 48..57 THEN c + 4
    ELSE IF c = 43 THEN 62
    ELSE IF c = 47 THEN 63
    ELSE -1

\* binascii.a2b_base64 without strict mode: characters outside the alphabet
\* are skipped, a complete pad sequence ends the input, and data that stops
\* inside a group of four raises.
RECURSIVE B64Loop(_, _, _, _, _)
B64Loop(str, quad_pos, pads, leftchar, out) ==
    IF str = << >> THEN (IF quad_pos # 0 THEN Invalid ELSE out)
    ELSE LET c == Head(str)
             v == B64Value(c)
         IN  IF c = 61
             THEN IF quad_pos >= 2 /\ quad_pos + pads + 1 >= 4 THEN out
                  ELSE IF quad_pos >= 2
                  THEN B64Loop(Tail(str), quad_pos, pads + 1, leftchar, out)
                  ELSE B64Loop(Tail(str), quad_pos, pads, leftchar, out)
             ELSE IF v < 0 THEN B64Loop(Tail(str), quad_pos, pads, leftchar, out)
             ELSE IF quad_pos = 0 THEN B64Loop(Tail(str), 1, 0, v, out)
             ELSE IF quad_pos = 1
             THEN B64Loop(Tail(str), 2, 0, v % 16,
                          Append(out, leftchar * 4 + v \div 16))
             ELSE IF quad_pos = 2
             THEN B64Loop(Tail(str), 3, 0, v % 4,
                          Append(out, leftchar * 16 + v \div 4))
             ELSE B64Loop(Tail(str), 0, 0, 0, Append(out, leftchar * 64 + v))

\* base64.b64decode(s)
b64decode(str) == B64Loop(str, 0, 0, 0, << >>)

\* bytes.decode('utf-8'), for one- and two-byte forms; any other byte raises.
RECURSIVE DecodeUtf8(_)
DecodeUtf8(bytes) ==
    IF bytes = << >> THEN << >>
    ELSE LET b == Head(bytes)
         IN  IF b < 128
             THEN LET rest == DecodeUtf8(Tail(bytes))
                  IN  IF rest = Invalid THEN Invalid ELSE <<b>> \o rest
             ELSE IF b \in 194..223 /\ Len(bytes) >= 2 /\ bytes[2] \in 128..191
             THEN LET rest == DecodeUtf8(SubSeq(bytes, 3, Len(bytes)))
                  IN  IF rest = Invalid THEN Invalid
                      ELSE <<(b - 192) * 64 + (bytes[2] - 128)>> \o rest
             ELSE Invalid

\* The header values of the model.
H_ABSENT == << >>
H_BASIC_U_P == <<66, 97, 115, 105, 99, 32, 100, 84, 112, 119>>
H_LOWER_BASIC_U_P == <<98, 97, 115, 105, 99, 32, 100, 84, 112, 119>>
H_BASIC_U_Q == <<66, 97, 115, 105, 99, 32, 100, 84, 112, 120>>
H_BASIC_NO_COLON == <<66, 97, 115, 105, 99, 32, 100, 88, 65, 61>>
H_BASIC_BAD_PADDING == <<66, 97, 115, 105, 99, 32, 100>>
H_BASIC_NOT_UTF8 == <<66, 97, 115, 105, 99, 32, 47, 119, 61, 61>>
H_BEARER == <<66, 101, 97, 114, 101, 114, 32, 100, 84, 112, 119>>
H_NO_SPACE == <<66, 97, 115, 105, 99>>
H_BASIC_STRAY_CHAR == <<66, 97, 115, 105, 99, 32, 100, 84, 33, 112, 119>>

AuthHeaders ==
    {H_ABSENT, H_BASIC_U_P, H_LOWER_BASIC_U_P, H_BASIC_U_Q, H_BASIC_NO_COLON,
     H_BASIC_BAD_PADDING, H_BASIC_NOT_UTF8, H_BEARER, H_NO_SPACE,
     H_BASIC_STRAY_CHAR}

BASIC == <<98, 97, 115, 105, 99>>

\* The users of the HTTP modes: user "u" with password "p", stored plain or
\* as a bcrypt hash.
HttpUserConfigs ==
    { << [username |-> <<117>>, bcrypt |-> FALSE, secret |-> <<112>>] >>,
      << [username |-> <<117>>, bcrypt |-> TRUE, secret |-> <<112>>] >> }

\* A slip in the check: the credentials of a Basic header are not looked at.
CheckBasicSchemeOnly(us, auth_header) ==
    LET parts == SplitOnce(auth_header, 32)
    IN  IF Len(parts) # 2 THEN "exception"
        ELSE IF Lower(parts[1]) # BASIC THEN "scheme"
        ELSE "none"

\* The body of the try block shared by ForwardProxyHandler._authenticate and
\* _basic_auth: what the header yields.  error is "scheme" for a scheme
\* other than Basic, "exception" when a split, the base64 decoding or the
\* UTF-8 decoding raises, "credentials" when authenticate_user says no.
CheckBasic(us, auth_header) ==
    LET parts == SplitOnce(auth_header, 32)
        raw == b64decode(parts[2])
        decoded == DecodeUtf8(raw)
        creds == SplitOnce(decoded, 58)
    IN  IF Len(parts) # 2 THEN "exception"
        ELSE IF Lower(parts[1]) # BASIC THEN "scheme"
        ELSE IF raw = Invalid THEN "exception"
        ELSE IF decoded = Invalid THEN "exception"
        ELSE IF Len(creds) # 2 THEN "exception"
        ELSE IF authenticate_user(us, creds[1], creds[2]) THEN "none"
        ELSE "credentials"

(***************************************************************************)
(* ForwardProxyHandler and the forward primitive of BaseProxyHandler.      *)
(* Domains and URLs are sequences of characters.                           *)
(***************************************************************************)
\* ---- the allow-list -------------------------------------------------------
\* str.replace(old, new) for a single character old.
RECURSIVE Replace(_, _, _)
Replace(str, old, new) ==
    IF str = << >> THEN << >>
    ELSE (IF Head(str) = old THEN new ELSE <<Head(str)>>)
         \o Replace(Tail(str), old, new)

\* A slip in __init__: the dots of the pattern are not escaped.
RegexSourceUnescaped(domain) == Replace(domain, "*", <<".", "*">>)

\* domain.replace('.', r'\.').replace('*', r'.*')
RegexSource(domain) ==
    Replace(Replace(domain, ".", <<"\\", ".">>), "*", <<".", "*">>)

\* re.compile: the source as items, "lit" for one literal character, "any"
\* for one arbitrary character, each possibly starred.
RECURSIVE Compile(_)
Compile(src) ==
    IF src = << >> THEN << >>
    ELSE LET escaped == Head(src) = "\\" /\ Len(src) >= 2
             atom == IF escaped THEN [kind |-> "lit", ch |-> src[2]]
                     ELSE IF Head(src) = "." THEN [kind |-> "any", ch |-> "."]
                     ELSE [kind |-> "lit", ch |-> Head(src)]
             n == IF escaped THEN 2 ELSE 1
             starred == Len(src) > n /\ src[n + 1] = "*"
             rest == SubSeq(src, n + (IF starred THEN 2 ELSE 1), Len(src))
         IN  <<[kind |-> atom.kind, ch |-> atom.ch, star |-> starred]>>
             \o Compile(rest)

\* One character matches an item.
Accepts(item, c) == item.kind = "any" \/ item.ch = c

\* pattern.match(str) for the pattern "^" + source + "$".
RECURSIVE Match(_, _)
Match(items, str) ==
    IF items = << >> THEN str = << >>
    ELSE LET item == Head(items)
         IN  IF item.star
             THEN \E k \in 0..Len(str) :
                     /\ \A i \in 1..k : Accepts(item, str[i])
                     /\ Match(Tail(items), SubSeq(str, k + 1, Len(str)))
             ELSE /\ str # << >>
                  /\ Accepts(item, Head(str))
                  /\ Match(Tail(items), Tail(str))

\* self.domain_patterns
domain_patterns(domains) == [i \in 1..Len(domains) |-> Compile(RegexSource(domains[i]))]

_is_domain_allowed(domains, domain) ==
    IF domains = << >> THEN TRUE
    ELSE \E i \in 1..Len(domains) : Match(domain_patterns(domains)[i], domain)

D_STAR_EXAMPLE_COM == <<"*", ".", "e", "x", "a", "m", "p", "l", "e", ".", "c", "o", "m">>
D_API_EXAMPLE_COM == <<"a", "p", "i", ".", "e", "x", "a", "m", "p", "l", "e", ".", "c", "o", "m">>
D_EXAMPLE_COM == <<"e", "x", "a", "m", "p", "l", "e", ".", "c", "o", "m">>
D_EVIL_COM == <<"e", "v", "i", "l", ".", "c", "o", "m">>

\* The strings of up to n characters over an alphabet.
StringsOver(alphabet, n) == UNION {[1..k -> alphabet] : k \in 0..n}

DomainPatterns == StringsOver({"a", ".", "*"}, MaxDomainLen) \cup {D_STAR_EXAMPLE_COM}

Domains ==
    StringsOver({"a", "."}, MaxDomainLen)
    \cup {D_API_EXAMPLE_COM, D_EXAMPLE_COM, D_EVIL_COM}

AllowLists ==
    {<< >>} \cup {<<p>> : p \in DomainPatterns}
    \cup {<<D_STAR_EXAMPLE_COM, <<"a">> >>}

\* ---- URLs -----------------------------------------------------------------
\* str(n) for n >= 0
RECURSIVE DecimalString(_)
DecimalString(n) ==
    IF n < 10 THEN <<Digits[n + 1]>>
    ELSE DecimalString(n \div 10) \o <<Digits[(n % 10) + 1]>>

\* The authority of a URL: the host, and the port when the URL names one.
Authority(host, port) ==
    IF port = 0 THEN host ELSE host \o <<":">> \o DecimalString(port)

\* request.url.human_repr() of an http URL with path "/".
human_repr(host, port) == <<"h", "t", "t", "p", ":", "/", "/">> \o Authority(host, port) \o <<"/">>

\* urlparse(url).netloc: what stands between "//" and the next "/", "?" or
\* "#".
netloc(url) ==
    LET starts == {i \in 1..(Len(url) - 1) : url[i] = "/" /\ url[i + 1] = "/"}
        from == (CHOOSE i \in starts : \A j \in starts : i <= j) + 2
        ends == {i \in from..Len(url) : url[i] \in {"/", "?", "#"}}
        to == IF ends = {} THEN Len(url)
              ELSE (CHOOSE i \in ends : \A j \in ends : i <= j) - 1
    IN  IF starts = {} THEN << >> ELSE SubSeq(url, from, to)

\* ---- requests and responses -----------------------------------------------
\* A header dict: a function from header names to values.
NoHeaders == [n \in {} |-> << >>]

\* dict.update
Update(d1, d2) ==
    [n \in DOMAIN d1 \cup DOMAIN d2 |-> IF n \in DOMAIN d2 THEN d2[n] ELSE d1[n]]

\* The dict without the given keys.
Without(d1, keys) == [n \in DOMAIN d1 \ keys |-> d1[n]]

\* request.headers.get(name), the empty string standing for None.
HeaderGet(headers, name) == IF name \in DOMAIN headers THEN headers[name] ELSE << >>

\* web.Response(status=..., headers=...), and an exception that leaves the
\* handler.
Response(status, header) == [raised |-> "none", status |-> status, header |-> header]
Raised(exc) == [raised |-> exc, status |-> 0, header |-> ""]
NoResponse == [raised |-> "none", status |-> 0, header |-> ""]

\* What self.session.request does: the upstream answers with a status, or
\* the attempt fails: connection refused and DNS failure raise
\* ClientConnectorError, a dropped connection ServerDisconnectedError, and the
\* total timeout of the session asyncio.TimeoutError.
Outcomes ==
    {[kind |-> "response", status |-> st, exc |-> "none"] : st \in {200, 404}}
    \cup {[kind |-> "failure", status |-> 0, exc |-> e] :
            e \in {"ClientConnectorError", "ServerDisconnectedError", "TimeoutError"}}

NoOutcome == [kind |-> "none", status |-> 0, exc |-> "none"]

\* except aiohttp.ClientError: the exceptions that derive from it.
IsClientError(exc) == exc \in {"ClientConnectorError", "ServerDisconnectedError"}

\* A slip in _forward_request: nothing is removed.
StripNothing(request_headers) == request_headers

hop_by_hop_headers ==
    {"Connection", "Keep-Alive", "Proxy-Authenticate", "Proxy-Authorization",
     "TE", "Trailers", "Transfer-Encoding", "Upgrade"}

\* for header in hop_by_hop_headers: if header in request_headers: del ...
StripHopByHop(request_headers) == Without(request_headers, hop_by_hop_headers)

\* _forward_request: the headers of the outbound request and the result.
_forward_request(headers, extra, outcome) ==
    LET request_headers == StripHopByHop(Update(headers, extra))
    IN  [outbound |-> request_headers,
         result |-> IF outcome.kind = "response" THEN Response(outcome.status, "")
                    ELSE IF IsClientError(outcome.exc) THEN Response(502, "")
                    ELSE Raised(outcome.exc)]

\* ForwardProxyHandler._authenticate: whether the request is authenticated.
_authenticate(req_auth, us, headers) ==
    IF ~req_auth THEN TRUE
    ELSE LET auth_header == HeaderGet(headers, "Proxy-Authorization")
         IN  IF auth_header = << >> THEN FALSE
             ELSE CheckBasic(us, auth_header) = "none"

\* request.path of a CONNECT request: the authority it names.
ConnectPath(request) == Authority(request.host, request.port)

\* _handle_connect
_handle_connect(domains, request) ==
    LET parts == Split(ConnectPath(request), ":")
    IN  IF Len(parts) # 2 THEN Raised("ValueError")
        ELSE IF ~_is_domain_allowed(domains, parts[1]) THEN Response(403, "")
        ELSE Response(200, "")

\* The requests of the model.  host and port are those of the request URL,
\* port 0 standing for a URL that names none.
UrlHosts == {D_API_EXAMPLE_COM, D_EXAMPLE_COM, D_EVIL_COM, <<"a">>}
UrlPorts == {0, 8080}

HeaderValue == <<120>>

RequestHeaders ==
    {NoHeaders} \cup {("Proxy-Authorization" :> h) : h \in AuthHeaders \ {H_ABSENT}}

HttpRequests ==
    [method : {"GET", "CONNECT"}, host : UrlHosts, port : UrlPorts,
     headers : RequestHeaders]

NoHttpRequest == [method |-> "", host |-> << >>, port |-> 0, headers |-> NoHeaders]

\* ForwardProxyHandler.handle: whether an outbound request was made, its
\* headers, and the result.
handle(req_auth, us, domains, request, outcome) ==
    LET target_url == human_repr(request.host, request.port)
        unsent(result) == [sent |-> FALSE, outbound |-> NoHeaders, result |-> result]
    IN  IF req_auth /\ ~_authenticate(req_auth, us, request.headers)
        THEN unsent(Response(407, "Proxy-Authenticate"))
        ELSE IF request.method = "CONNECT"
        THEN unsent(_handle_connect(domains, request))
        ELSE IF ~_is_domain_allowed(domains, netloc(target_url))
        THEN unsent(Response(403, ""))
        ELSE LET f == _forward_request(request.headers, NoHeaders, outcome)
             IN  [sent |-> TRUE, outbound |-> f.outbound, result |-> f.result]

\* A value of random.uniform(0, total_weight), the weights being whole
\* numbers: the number k itself (at |-> "point"), or any number strictly
\* between k and k + 1 (at |-> "open").
NoDraw == [at |-> "none", k |-> 0]

\* The URL of an outbound request of the reverse handler, in its parts.
NoUrl == [scheme |-> "", host |-> "", port |-> 0, path |-> << >>]

\* ---- the calls --------------------------------------------------------------
NoForward ==
    [op |-> "none", request |-> NoHttpRequest, extra |-> NoHeaders,
     outcome |-> NoOutcome, sent |-> FALSE, outbound |-> NoHeaders,
     result |-> NoResponse, domain |-> << >>, allowed |-> FALSE,
     reached |-> FALSE, target |-> NoTarget, url |-> NoUrl,
     among |-> << >>, r |-> NoDraw]

ForwardInit ==
    /\ allowed_domains \in AllowLists
    /\ fwd = NoForward

\* The handler of a server that is not in forward mode.
ForwardIdle ==
    /\ allowed_domains = << >>
    /\ fwd = NoForward

\* The handler part of a server in forward mode.
ForwardConfig ==
    /\ require_auth \in BOOLEAN
    /\ users \in HttpUserConfigs
    /\ sockname = << >>
    /\ session = [NewSession EXCEPT !.pc = "off"]

\* One request handled by ForwardProxyHandler.handle.  The outcome of the
\* outbound request matters only when one is made.
Handle(request, outcome) ==
    /\ fwd.op = "none"
    /\ LET h == handle(require_auth, users, allowed_domains, request, outcome)
       IN  fwd' = [NoForward EXCEPT !.op = "handle", !.request = request,
                                   !.outcome = IF h.sent THEN outcome ELSE NoOutcome,
                                   !.sent = h.sent, !.outbound = h.outbound,
                                   !.result = h.result]
    /\ UNCHANGED <<now, allowed_domains, pipeVars>>
    /\ UNCHANGED <<cacheVars, rateVars, routeVars, coreVars, socksVars>>

\* The names of the headers a forwarded request arrives with, and of the
\* extra headers the caller adds.
InboundNames ==
    {"Accept", "Connection", "connection", "Keep-Alive", "Trailers",
     "trailers", "Upgrade"}
ExtraNames == {"X-Forwarded-For", "Connection", "Accept"}

HeaderDicts(names, n) ==
    {[k \in ks |-> HeaderValue] : ks \in {x \in SUBSET names : Cardinality(x) <= n}}

\* One call of _forward_request, as both handlers make it.
ForwardRequest(headers, extra, outcome) ==
    /\ fwd.op = "none"
    /\ LET f == _forward_request(headers, extra, outcome)
       IN  fwd' = [NoForward EXCEPT !.op = "forward",
                                   !.request = [NoHttpRequest EXCEPT
                                                  !.method = "GET",
                                                  !.headers = headers],
                                   !.extra = extra, !.outcome = outcome,
                                   !.sent = TRUE, !.outbound = f.outbound,
                                   !.result = f.result]
    /\ UNCHANGED <<now, allowed_domains, pipeVars>>
    /\ UNCHANGED <<cacheVars, rateVars, routeVars, coreVars, socksVars>>

\* One call of _is_domain_allowed.
IsDomainAllowed(domain) ==
    /\ fwd.op = "none"
    /\ fwd' = [NoForward EXCEPT !.op = "allowed", !.domain = domain,
                               !.allowed = _is_domain_allowed(allowed_domains, domain)]
    /\ UNCHANGED <<now, allowed_domains, pipeVars>>
    /\ UNCHANGED <<cacheVars, rateVars, routeVars, coreVars, socksVars>>

\* _setup_handlers, forward mode: the methods a route is added for, each
\* with the pattern /{path:.*}.
Routes == {"GET", "POST", "PUT", "DELETE", "PATCH", "HEAD", "OPTIONS"}

\* The methods of the requests that arrive at the listener.
Verbs == Routes \cup {"CONNECT"}

\* The requests that arrive at the listener, without proxy credentials or
\* with those of u:p or u:q, and what becomes of the outbound request.
ListenerRequests ==
    [method : Verbs, host : UrlHosts, port : UrlPorts,
     headers : {NoHeaders} \cup {("Proxy-Authorization" :> h) :
                                    h \in {H_BASIC_U_P, H_BASIC_U_Q}}]
ListenerOutcomes ==
    {o \in Outcomes : o.status = 200 \/ o.exc = "ClientConnectorError"}

\* What the router answers when no route takes the request: 405 when the
\* pattern matches the path of the request and no route has its method, 404
\* when the pattern does not match (the target of a CONNECT is an authority,
\* which the framework may hand on as an empty path).
NoRoute == {404, 405}

\* One request that arrives at the listener of a server in forward mode:
\* the router hands it to ForwardProxyHandler.handle when a route has its
\* method, and answers by itself otherwise.
Dispatch(request, outcome, status) ==
    /\ fwd.op = "none"
    /\ IF request.method \in Routes
       THEN \E h \in {handle(require_auth, users, allowed_domains, request, outcome)} :
               fwd' = [NoForward EXCEPT !.op = "dispatch", !.request = request,
                                       !.outcome = IF h.sent THEN outcome ELSE NoOutcome,
                                       !.sent = h.sent, !.outbound = h.outbound,
                                       !.result = h.result, !.reached = TRUE]
       ELSE fwd' = [NoForward EXCEPT !.op = "dispatch", !.request = request,
                                    !.result = Response(status, "")]
    /\ UNCHANGED <<now, allowed_domains, pipeVars>>
    /\ UNCHANGED <<cacheVars, rateVars, routeVars, coreVars, socksVars>>

\* The call has returned; the handler keeps nothing of it.
ForwardDone ==
    /\ fwd.op # "none"
    /\ fwd' = NoForward
    /\ UNCHANGED <<now, allowed_domains, pipeVars>>
    /\ UNCHANGED <<cacheVars, rateVars, routeVars, coreVars, socksVars>>

ForwardNext ==
    \/ \E request \in HttpRequests, outcome \in Outcomes : Handle(request, outcome)
    \/ \E headers \in HeaderDicts(InboundNames, MaxHeaders),
          extra \in HeaderDicts(ExtraNames, 1),
          outcome \in Outcomes : ForwardRequest(headers, extra, outcome)
    \/ \E domain \in Domains : IsDomainAllowed(domain)
    \/ \E request \in ListenerRequests, outcome \in ListenerOutcomes,
          status \in NoRoute : Dispatch(request, outcome, status)
    \/ ForwardDone

(***************************************************************************)
(* ReverseProxyHandler.handle.  The call is kept in fwd.                   *)
(***************************************************************************)
\* Target.get_url: urljoin(self.base_url, path) for a path that begins with
\* one "/", base_url being scheme://host:port.
get_url(target, path) ==
    [scheme |-> target.scheme, host |-> target.host, port |-> target.port,
     path |-> path]

\* The names of the headers a request of reverse mode arrives with; their
\* values are HeaderValue.
ReverseInboundNames ==
    {"Accept", "X-Forwarded-For", "X-Forwarded-Path", "x-forwarded-path"}

\* The requests of reverse mode: request.path begins with one "/";
\* request.remote, request.scheme and request.host are those of the inbound
\* connection.
ReversePaths ==
    {p \in Paths : /\ Len(p) >= 1 /\ p[1] = "/"
                   /\ Len(p) >= 2 => p[2] # "/"}

ReverseRequests ==
    [method : {"GET"}, path : ReversePaths, remote : {"10.0.0.1"},
     scheme : {"https"}, host : {"proxy.example.com"},
     headers : HeaderDicts(ReverseInboundNames, MaxHeaders)]

\* The X-Forwarded headers of handle.
Forwarded(request) ==
    [n \in {"X-Forwarded-For", "X-Forwarded-Proto", "X-Forwarded-Host",
            "X-Forwarded-Path"} |->
        IF n = "X-Forwarded-For" THEN request.remote
        ELSE IF n = "X-Forwarded-Proto" THEN request.scheme
        ELSE IF n = "X-Forwarded-Host" THEN request.host
        ELSE request.path]

\* ReverseProxyHandler.handle: the target, whether an outbound request was
\* made, its URL and headers, and the result.
reverse_handle(routing, tgts, request, outcome) ==
    LET path == request.path
        target == _get_target_for_path(routing, tgts, path)
        f == _forward_request(request.headers, Forwarded(request), outcome)
    IN  IF target = NoTarget
        THEN [target |-> NoTarget, sent |-> FALSE, url |-> NoUrl,
              outbound |-> NoHeaders, result |-> Response(404, "")]
        ELSE [target |-> target, sent |-> TRUE, url |-> get_url(target, path),
              outbound |-> f.outbound, result |-> f.result]

\* One request handled by ReverseProxyHandler.handle.
ReverseHandle(request, outcome) ==
    /\ fwd.op = "none"
    /\ \E h \in {reverse_handle(path_routing, targets, request, outcome)} :
          fwd' = [NoForward EXCEPT !.op = "reverse", !.request = request,
                                  !.extra = Forwarded(request),
                                  !.outcome = IF h.sent THEN outcome ELSE NoOutcome,
                                  !.sent = h.sent, !.outbound = h.outbound,
                                  !.result = h.result, !.target = h.target,
                                  !.url = h.url]
    /\ UNCHANGED <<now, allowed_domains, pipeVars>>
    /\ UNCHANGED <<cacheVars, rateVars, routeVars, coreVars, socksVars>>

\* The call has returned; the handler keeps nothing of it.
ReverseDone ==
    /\ fwd.op # "none"
    /\ fwd' = NoForward
    /\ UNCHANGED <<now, allowed_domains, pipeVars>>
    /\ UNCHANGED <<cacheVars, rateVars, routeVars, coreVars, socksVars>>

ReverseNext ==
    \/ \E request \in ReverseRequests, outcome \in ListenerOutcomes :
          ReverseHandle(request, outcome)
    \/ ReverseDone

(***************************************************************************)
(* ReverseProxyHandler._select_target.  The call is kept in fwd.           *)
(***************************************************************************)
\* The lists of targets chosen from: up to MaxTargets targets of the names
\* A, B, C, D in this order, with weights 1..MaxWeight.
TargetNames == <<"A", "B", "C", "D">>

TargetLists ==
    UNION {{[i \in 1..n |-> Target(TargetNames[i], "10.1.0.1", 8080, FALSE, w[i])] :
              w \in [1..n -> 1..MaxWeight]} : n \in 1..MaxTargets}

\* sum(target.weight for target in targets)
RECURSIVE total_weight(_)
total_weight(tgts) ==
    IF tgts = << >> THEN 0 ELSE Head(tgts).weight + total_weight(Tail(tgts))

\* The values random.uniform(0, total) returns: a + (b - a) * random() lies
\* in [0, total], the upper end being reached by rounding only.
Draws(total) ==
    [at : {"point"}, k : 0..total] \cup [at : {"open"}, k : 0..(total - 1)]

\* A slip in _select_target: `>` for `>=`.
ReachesStrict(upto, r) == upto > r.k

\* `upto >= r`, upto being a whole number.
Reaches(upto, r) == IF r.at = "point" THEN upto >= r.k ELSE upto >= r.k + 1

\* The loop of _select_target from the i-th target on; 0 when it ends
\* without returning.
RECURSIVE SelectLoop(_, _, _, _)
SelectLoop(tgts, i, upto, r) ==
    IF i > Len(tgts) THEN 0
    ELSE IF Reaches(upto + tgts[i].weight, r) THEN i
    ELSE SelectLoop(tgts, i + 1, upto + tgts[i].weight, r)

\* ReverseProxyHandler._select_target, for a list that is not empty: the
\* index of the target returned, the first when the loop ends without one.
_select_target(tgts, r) ==
    LET i == SelectLoop(tgts, 1, 0, r)
    IN  IF i = 0 THEN 1 ELSE i

\* One call of _select_target.
SelectTarget(tgts, r) ==
    /\ fwd.op = "none"
    /\ fwd' = [NoForward EXCEPT !.op = "select", !.among = tgts, !.r = r,
                               !.target = tgts[_select_target(tgts, r)]]
    /\ UNCHANGED <<now, allowed_domains, pipeVars>>
    /\ UNCHANGED <<cacheVars, rateVars, routeVars, coreVars, socksVars>>

\* The call has returned.
SelectDone ==
    /\ fwd.op = "select"
    /\ fwd' = NoForward
    /\ UNCHANGED <<now, allowed_domains, pipeVars>>
    /\ UNCHANGED <<cacheVars, rateVars, routeVars, coreVars, socksVars>>

SelectNext ==
    \/ \E tgts \in TargetLists : \E r \in Draws(total_weight(tgts)) : SelectTarget(tgts, r)
    \/ SelectDone

(***************************************************************************)
(* The middleware pipeline: error_middleware and the stages that           *)
(* setup_middlewares appends, around the handler of the mode.  A request   *)
(* path is the sequence of its characters.                                 *)
(***************************************************************************)
\* ---- requests and responses -----------------------------------------------
P_METRICS == <<"/", "m", "e", "t", "r", "i", "c", "s">>
P_HEALTH == <<"/", "h", "e", "a", "l", "t", "h">>
P_HEALTH_X == <<"/", "h", "e", "a", "l", "t", "h", "/", "x">>
P_X == <<"/", "x">>

PipelinePaths == {P_METRICS, P_HEALTH, P_HEALTH_X, P_X}

\* The Authorization headers the requests of the pipeline carry.
PipelineAuthHeaders ==
    {H_ABSENT, H_BASIC_U_P, H_BASIC_U_Q, H_BASIC_NO_COLON, H_BASIC_BAD_PADDING,
     H_BEARER, H_BASIC_STRAY_CHAR}

\* A request: request.method, request.path, request.remote, request.headers.
PipelineRequests ==
    {[method |-> m, path |-> p, remote |-> "10.0.0.1",
      headers |-> IF h = H_ABSENT THEN NoHeaders
                  ELSE [n \in {"Authorization"} |-> h]] :
        m \in {"GET", "POST"}, p \in PipelinePaths, h \in PipelineAuthHeaders}

NoPipelineRequest ==
    [method |-> "", path |-> << >>, remote |-> "", headers |-> NoHeaders]

\* web.Response(status=, headers=, text= or body=), and an exception that
\* leaves a stage.
Reply(status, header, body) ==
    [raised |-> "none", status |-> status, header |-> header, body |-> body]
Raise(exc) == [raised |-> exc, status |-> 0, header |-> "", body |-> ""]
NoReply == [raised |-> "none", status |-> 0, header |-> "", body |-> ""]

\* What the handler of the mode does with a request: it answers with a
\* status and a body, or an exception leaves it (handlers/base.py lets the
\* timeout of the outbound request through).
Bodies == {"b1", "b2"}
Downstreams ==
    {[kind |-> "response", status |-> st, body |-> b, exc |-> "none"] :
        st \in {200, 404}, b \in Bodies}
    \cup {[kind |-> "failure", status |-> 0, body |-> "", exc |-> "TimeoutError"]}

NoDownstream == [kind |-> "none", status |-> 0, body |-> "", exc |-> "none"]

\* ---- the stages -----------------------------------------------------------
\* A slip in the stages: the exempt paths are matched as prefixes.
SkipByPrefix(path) == startswith(path, P_METRICS) \/ startswith(path, P_HEALTH)

\* skip_paths = ['/metrics', '/health']; `request.path in skip_paths`
IsSkipPath(path) == path \in {P_METRICS, P_HEALTH}

\* str(request.url): the server is reached as http://p.
Url(request) == <<"h", "t", "t", "p", ":", "/", "/", "p">> \o request.path

\* f"{k}={v}" for the items of request.query, joined with the empty string.
RECURSIVE QueryParts(_)
QueryParts(query) ==
    IF query = << >> THEN << >>
    ELSE Head(query)[1] \o <<"=">> \o Head(query)[2] \o QueryParts(Tail(query))

\* ''.join(key_parts): the string that is hashed, md5 being taken as free
\* of collisions; the method stands as one element.
key_parts(method, url, accept, accept_encoding, query) ==
    <<method>> \o url \o accept \o accept_encoding \o QueryParts(query)

\* _get_cache_key for the requests of the pipeline, which carry no query
\* string.
_get_cache_key(request) ==
    key_parts(request.method, Url(request),
              HeaderGet(request.headers, "Accept"),
              HeaderGet(request.headers, "Accept-Encoding"), << >>)

\* `await response.read()`: web.Response has no attribute read.
ResponseRead(response) == Raise("AttributeError")

\* What a request has done so far, w:
\*   clients, cache, size   the state of the limiter and of the cache;
\*   seen       the responses of `answered`;
\*   ret        the last MemoryCache call;
\*   trace      the stages entered, in order, "handler" for the handler;
\*   by_auth    what the authentication stage returned;
\*   checked    the authentication stage went past its skip_paths test;
\*   limited, allowed   is_allowed was called, and its return value;
\*   looked_up, hit, stored   cache.get was called, it returned an entry,
\*              cache.set was called;
\*   invoked    the caching stage awaited its handler.
World ==
    [clients |-> clients, cache |-> cache, size |-> size, seen |-> answered,
     ret |-> ret, trace |-> << >>, by_auth |-> NoReply, checked |-> FALSE,
     limited |-> FALSE, allowed |-> FALSE, looked_up |-> FALSE, hit |-> FALSE,
     stored |-> FALSE, invoked |-> FALSE]

Enter(w, stage) == [w EXCEPT !.trace = Append(@, stage)]

\* The stage is among the stages entered.
Entered(trace, stage) == \E i \in 1..Len(trace) : trace[i] = stage

RECURSIVE Chain(_, _, _, _)

\* The handler of the mode (ForwardProxyHandler.handle or
\* ReverseProxyHandler.handle).
terminal(w, request, down) ==
    [w |-> Enter(w, "handler"),
     resp |-> IF down.kind = "response" THEN Reply(down.status, "", down.body)
              ELSE Raise(down.exc)]

\* The one element of a set of one element; the stages bind what they
\* compute once with it.
Only(S) == CHOOSE x \in S : TRUE

\* cache_middleware after `await handler(request)` returned or raised n.
\* Nothing after `await response.read()` is reached.
CacheReturn(n, cache_key) ==
    IF n.resp.raised # "none" THEN n
    ELSE IF 200 <= n.resp.status /\ n.resp.status < 300
    THEN [w |-> [n.w EXCEPT !.seen = IF cache_key \in DOMAIN @ THEN @
                                     ELSE (cache_key :> n.resp) @@ @],
          resp |-> ResponseRead(n.resp)]
    ELSE n

\* cache_middleware after cache.get(cache_key) returned.
CacheLookedUp(rest, w1, request, down, cache_key, cached) ==
    LET w2 == [w1 EXCEPT !.cache = cached.cache, !.size = cached.size,
                         !.looked_up = TRUE,
                         !.ret = [op |-> "get", key |-> cache_key,
                                  value |-> cached.value, ttl |-> NoTtl,
                                  ok |-> cached.value # None,
                                  evicted |-> << >>, expired |-> cached.expired]]
    IN  IF cached.value # None
        THEN [w |-> [w2 EXCEPT !.hit = TRUE],
              resp |-> Reply(cached.value.status, cached.value.headers,
                             cached.value.body)]
        ELSE Only({CacheReturn(n, cache_key) :
                     n \in {Chain(rest, [w2 EXCEPT !.invoked = TRUE], request, down)}})

\* cache_middleware
cache_middleware(rest, w, request, down) ==
    LET w1 == Enter(w, "cache_middleware")
    IN  IF request.method # "GET"
        THEN Chain(rest, [w1 EXCEPT !.invoked = TRUE], request, down)
        ELSE IF IsSkipPath(request.path)
        THEN Chain(rest, [w1 EXCEPT !.invoked = TRUE], request, down)
        ELSE Only({CacheLookedUp(rest, w1, request, down, cache_key, cached) :
                     cache_key \in {_get_cache_key(request)},
                     cached \in {get([cache |-> w1.cache, size |-> w1.size],
                                     _get_cache_key(request), now)}})

\* A slip in rate_limit_middleware: an admitted request is handed to the
\* handler twice.
RateCheckedTwice(rest, w1, request, down, r) ==
    LET w2 == [w1 EXCEPT !.clients = r.clients, !.limited = TRUE,
                         !.allowed = r.allowed]
    IN  IF r.allowed
        THEN Chain(rest, Chain(rest, w2, request, down).w, request, down)
        ELSE [w |-> w2, resp |-> Reply(429, "", "Too Many Requests")]

\* rate_limit_middleware after is_allowed returned r.
RateChecked(rest, w1, request, down, r) ==
    LET w2 == [w1 EXCEPT !.clients = r.clients, !.limited = TRUE,
                         !.allowed = r.allowed]
    IN  IF r.allowed THEN Chain(rest, w2, request, down)
        ELSE [w |-> w2, resp |-> Reply(429, "", "Too Many Requests")]

\* rate_limit_middleware
rate_limit_middleware(rest, w, request, down) ==
    LET w1 == Enter(w, "rate_limit_middleware")
        client_id == request.remote
    IN  IF IsSkipPath(request.path) THEN Chain(rest, w1, request, down)
        ELSE Only({RateChecked(rest, w1, request, down, r) :
                     r \in {is_allowed(w1.clients, client_id, now,
                                       requests_per_minute, burst)}})

\* _basic_auth after `await handler(request)` returned or raised n: the call
\* stands inside the try block, and an exception that leaves the handler is
\* answered like one of the decoding.
BasicReturn(n) ==
    IF n.resp.raised # "none"
    THEN [w |-> n.w, resp |-> Reply(401, "WWW-Authenticate", "Authentication error")]
    ELSE n

\* _basic_auth with what the header yields.
BasicChecked(rest, w, request, down, error) ==
    IF error = "scheme"
    THEN [w |-> w, resp |-> Reply(401, "WWW-Authenticate",
                                  "Only Basic authentication is supported")]
    ELSE IF error = "exception"
    THEN [w |-> w, resp |-> Reply(401, "WWW-Authenticate", "Authentication error")]
    ELSE IF error = "credentials"
    THEN [w |-> w, resp |-> Reply(401, "WWW-Authenticate", "Invalid credentials")]
    ELSE Only({BasicReturn(n) : n \in {Chain(rest, w, request, down)}})

\* _basic_auth
_basic_auth(rest, w, request, down) ==
    LET auth_header == HeaderGet(request.headers, "Authorization")
    IN  IF auth_header = << >>
        THEN [w |-> w, resp |-> Reply(401, "WWW-Authenticate", "Authentication required")]
        ELSE Only({BasicChecked(rest, w, request, down, error) :
                     error \in {CheckBasic(users, auth_header)}})

\* What the authentication stage returned is kept for the claims.
AuthReturn(r) == [w |-> [r.w EXCEPT !.by_auth = r.resp], resp |-> r.resp]

\* auth_middleware, with _jwt_auth and _oauth_auth.
auth_middleware(rest, w, request, down) ==
    LET w1 == Enter(w, "auth_middleware")
        w2 == [w1 EXCEPT !.checked = TRUE]
    IN  Only({AuthReturn(r) : r \in {
            IF IsSkipPath(request.path) THEN Chain(rest, w1, request, down)
            ELSE IF auth_method = "basic" THEN _basic_auth(rest, w2, request, down)
            ELSE IF auth_method = "jwt"
            THEN [w |-> w2,
                  resp |-> Reply(501, "", "JWT authentication is not implemented yet")]
            ELSE IF auth_method = "oauth"
            THEN [w |-> w2,
                  resp |-> Reply(501, "", "OAuth authentication is not implemented yet")]
            ELSE [w |-> w2,
                  resp |-> Reply(500, "",
                                 "Internal Server Error: Unsupported authentication method")]}})

\* logging_middleware: it logs, and returns or re-raises what its handler did.
logging_middleware(rest, w, request, down) ==
    Chain(rest, Enter(w, "logging_middleware"), request, down)

\* error_middleware after `await handler(request)`: an exception becomes a
\* 500 response.
ErrorReturn(n) ==
    IF n.resp.raised # "none"
    THEN [w |-> n.w, resp |-> Reply(500, "", "Internal Server Error")]
    ELSE n

\* error_middleware
error_middleware(rest, w, request, down) ==
    Only({ErrorReturn(n) :
            n \in {Chain(rest, Enter(w, "error_middleware"), request, down)}})

\* The stages ms around the handler, each given the rest as its handler.
Chain(ms, w, request, down) ==
    IF ms = << >> THEN terminal(w, request, down)
    ELSE IF Head(ms) = "error_middleware"
    THEN error_middleware(Tail(ms), w, request, down)
    ELSE IF Head(ms) = "logging_middleware"
    THEN logging_middleware(Tail(ms), w, request, down)
    ELSE IF Head(ms) = "auth_middleware"
    THEN auth_middleware(Tail(ms), w, request, down)
    ELSE IF Head(ms) = "rate_limit_middleware"
    THEN rate_limit_middleware(Tail(ms), w, request, down)
    ELSE cache_middleware(Tail(ms), w, request, down)

\* web.Application(middlewares=[error_middleware]) and setup_middlewares.
setup_middlewares(auth_enabled, rate_enabled, cache_enabled) ==
    <<"error_middleware", "logging_middleware">>
        \o (IF auth_enabled THEN <<"auth_middleware">> ELSE << >>)
        \o (IF rate_enabled THEN <<"rate_limit_middleware">> ELSE << >>)
        \o (IF cache_enabled THEN <<"cache_middleware">> ELSE << >>)

\* The lambdas of setup_middlewares carry no mark of @web.middleware.
Unmarked(ms) ==
    \E i \in 1..Len(ms) :
        ms[i] \in {"auth_middleware", "rate_limit_middleware", "cache_middleware"}

\* The application serves one request.  A framework that knows old-style
\* middlewares builds the chain by awaiting each unmarked one as a factory,
\* m(app, handler): the stage reads request.path or request.method of the
\* application object, the AttributeError leaves the framework's own handler
\* outside every middleware, and the client is answered 500.
Serve(ms, old, w, request, down) ==
    IF old /\ Unmarked(ms)
    THEN [w |-> w, resp |-> Reply(500, "", "500 Internal Server Error")]
    ELSE Chain(ms, w, request, down)

\* ---- the application ------------------------------------------------------
AuthMethods == {"basic", "jwt", "oauth", "ldap"}

NoPipe ==
    [op |-> "none", request |-> NoPipelineRequest, down |-> NoDownstream,
     resp |-> NoReply, trace |-> << >>, by_auth |-> NoReply, checked |-> FALSE,
     limited |-> FALSE, allowed |-> FALSE, looked_up |-> FALSE, hit |-> FALSE,
     stored |-> FALSE, invoked |-> FALSE,
     clients_before |-> << >>, seen_before |-> << >>]

\* An application without the stages of setup_middlewares.
PipelineIdle ==
    /\ middlewares = << >>
    /\ auth_method = "basic"
    /\ old_style = FALSE
    /\ pipe = NoPipe
    /\ answered = << >>

\* ProxyServer.__init__ of a server in an HTTP mode.  get_rate_limiter and
\* get_cache build their objects on first use; they are built here.
PipelineInit ==
    /\ \E auth_enabled, rate_enabled, cache_enabled \in BOOLEAN :
         /\ middlewares = setup_middlewares(auth_enabled, rate_enabled, cache_enabled)
         /\ auth_method \in (IF auth_enabled THEN AuthMethods ELSE {"basic"})
         /\ IF rate_enabled
            THEN /\ requests_per_minute = 60
                 /\ burst \in 1..MaxPipelineBurst
                 /\ clients = << >>
                 /\ calls = [c \in ClientIds |-> NoCalls]
            ELSE RateIdle
         /\ IF cache_enabled THEN CacheInit ELSE CacheIdle
    /\ old_style \in BOOLEAN
    /\ pipe = NoPipe
    /\ answered = << >>

\* One request served by the application.
Request(request, down) ==
    /\ pipe.op = "none"
    /\ middlewares # << >>
    /\ \E s \in {Serve(middlewares, old_style, World, request, down)} :
           /\ clients' = s.w.clients
           /\ calls' = IF s.w.limited
                       THEN [calls EXCEPT ![request.remote] =
                               Remember(@, clients, request.remote, now,
                                        s.w.allowed, burst)]
                       ELSE calls
           /\ cache' = s.w.cache
           /\ size' = s.w.size
           /\ ret' = s.w.ret
           /\ answered' = s.w.seen
           /\ pipe' = [op |-> "request", request |-> request,
                       down |-> IF Entered(s.w.trace, "handler") THEN down
                                ELSE NoDownstream,
                       resp |-> s.resp, trace |-> s.w.trace,
                       by_auth |-> s.w.by_auth, checked |-> s.w.checked,
                       limited |-> s.w.limited, allowed |-> s.w.allowed,
                       looked_up |-> s.w.looked_up, hit |-> s.w.hit,
                       stored |-> s.w.stored, invoked |-> s.w.invoked,
                       clients_before |-> clients, seen_before |-> answered]
    /\ UNCHANGED <<now, ttl, max_size, requests_per_minute, burst>>
    /\ UNCHANGED <<middlewares, auth_method, old_style, allowed_domains, fwd>>
    /\ UNCHANGED <<routeVars, coreVars, socksVars>>

\* The response has been sent; the limiter and the cache keep their state.
PipelineDone ==
    /\ pipe.op # "none"
    /\ pipe' = NoPipe
    /\ UNCHANGED <<now, cacheVars, rateVars, routeVars, coreVars, socksVars>>
    /\ UNCHANGED <<middlewares, auth_method, old_style, answered, allowed_domains, fwd>>

PipelineNext ==
    \/ \E request \in PipelineRequests, down \in Downstreams : Request(request, down)
    \/ PipelineDone

(***************************************************************************)
(* Requests served at the same time.  aiohttp runs the handler of every    *)
(* request as a task of the one event loop; a task runs until it awaits    *)
(* something that is not ready, and only then another task runs.  Of the   *)
(* stages, is_allowed, cache.get and cache.set are plain calls; a stage    *)
(* that awaits its handler runs on into the next stage, and the task is    *)
(* suspended where the handler of the mode awaits the network.             *)
(***************************************************************************)
TaskIds == 1..MaxTasks

\* The requests served at the same time: of one client, without
\* credentials, to an ordinary path and to an exempt one.
TaskRequests ==
    {r \in PipelineRequests : r.headers = NoHeaders /\ r.path \in {P_X, P_HEALTH}}

\* A scheduler that may also switch tasks inside is_allowed, between the
\* test of the count and the decrement.
SuspensionPointsPreemptive == {"handler", "admitted"}

\* Where a task can be suspended: in the handler of the mode.
SuspensionPoints == {"handler"}

\* pc: "idle", "admitted" (inside is_allowed, past the test of line 62),
\* "handler" (in `await handler(request)`) or "done"; at: the time.time() of
\* the task's call of is_allowed; looked_up: cache.get was called and
\* returned None; status: the status of the response.
NoTask == [pc |-> "idle", request |-> NoPipelineRequest, at |-> 0,
           looked_up |-> FALSE, status |-> 0]

NoTasks == [t \in TaskIds |-> NoTask]

\* The task awaits the handler of the mode.
InHandler(tk, looked_up) == [tk EXCEPT !.pc = "handler", !.looked_up = looked_up]

\* The task has its response.
Responded(tk, status) == [tk EXCEPT !.pc = "done", !.status = status]

\* cache_middleware from its first line to `await handler(request)` or to
\* the return of a cached response, on st = [cache, size].
CacheStage(tk, st) ==
    IF ~Entered(middlewares, "cache_middleware") THEN [task |-> InHandler(tk, FALSE), st |-> st]
    ELSE IF tk.request.method # "GET" THEN [task |-> InHandler(tk, FALSE), st |-> st]
    ELSE IF IsSkipPath(tk.request.path) THEN [task |-> InHandler(tk, FALSE), st |-> st]
    ELSE LET cached == get(st, _get_cache_key(tk.request), now)
             st2 == [cache |-> cached.cache, size |-> cached.size]
         IN  IF cached.value # None
             THEN [task |-> Responded(tk, cached.value.status), st |-> st2]
             ELSE [task |-> InHandler(tk, TRUE), st |-> st2]

\* cache_middleware from the return of `await handler(request)`: an exception
\* of the handler passes through to error_middleware; a response with a
\* status in [200,300) is read, which raises, and cache.set is not reached.
CacheReturned(tk, down) ==
    IF down.kind # "response" THEN Responded(tk, 500)
    ELSE IF tk.looked_up /\ 200 <= down.status /\ down.status < 300
    THEN IF ResponseRead(Reply(down.status, "", down.body)).raised # "none"
         THEN Responded(tk, 500)
         \* json.dumps(value) of cache.set: the body is bytes
         ELSE Responded(tk, 500)
    ELSE Responded(tk, down.status)

\* `client['tokens'] -= 1.0; client['last_request'] = now`
TakeToken(cl, client_id, t) ==
    [cl EXCEPT ![client_id] = [@ EXCEPT !.tokens = @ - TokenScale, !.last_request = t]]

\* The task runs from the cache stage on.
EnterCacheStage(t, tk) ==
    \E c \in {CacheStage(tk, [cache |-> cache, size |-> size])} :
        /\ tasks' = [tasks EXCEPT ![t] = c.task]
        /\ cache' = c.st.cache
        /\ size' = c.st.size

\* A request arrives and its task runs to its first suspension or to its
\* response.
TaskArrive(t, request) ==
    /\ tasks[t].pc = "idle"
    /\ LET tk == [NoTask EXCEPT !.request = request, !.at = now]
           client_id == request.remote
       IN  IF old_style /\ Unmarked(middlewares)
           THEN /\ tasks' = [tasks EXCEPT ![t] = Responded(tk, 500)]
                /\ UNCHANGED <<clients, calls, cache, size>>
           ELSE IF ~Entered(middlewares, "rate_limit_middleware")
                   \/ IsSkipPath(request.path)
           THEN EnterCacheStage(t, tk) /\ UNCHANGED <<clients, calls>>
           ELSE IF /\ "admitted" \in SuspensionPoints
                   /\ client_id \in DOMAIN clients
                   /\ HasToken(Refill(clients[client_id].tokens,
                                      now - clients[client_id].updated_at,
                                      requests_per_minute, burst))
           THEN /\ clients' =
                     [clients EXCEPT ![client_id] =
                        Denied(@, Refill(@.tokens, now - @.updated_at,
                                         requests_per_minute, burst), now)]
                /\ tasks' = [tasks EXCEPT ![t] = [tk EXCEPT !.pc = "admitted"]]
                /\ UNCHANGED <<calls, cache, size>>
           ELSE \E r \in {is_allowed(clients, client_id, now, requests_per_minute, burst)} :
                   /\ clients' = r.clients
                   /\ calls' = [calls EXCEPT ![client_id] =
                                  Remember(@, clients, client_id, now, r.allowed, burst)]
                   /\ IF r.allowed THEN EnterCacheStage(t, tk)
                      ELSE /\ tasks' = [tasks EXCEPT ![t] = Responded(tk, 429)]
                           /\ UNCHANGED <<cache, size>>
    /\ UNCHANGED <<now, ttl, max_size, ret, requests_per_minute, burst>>
    /\ UNCHANGED <<routeVars, server, validated, keyed, socksVars, httpVars>>

\* The loop resumes a suspended task, which runs to its response: the
\* handler of the mode has answered or failed as down says.
TaskResume(t, down) ==
    /\ tasks[t].pc \in SuspensionPoints
    /\ IF tasks[t].pc = "admitted"
       THEN /\ clients' = TakeToken(clients, tasks[t].request.remote, tasks[t].at)
            /\ EnterCacheStage(t, tasks[t])
       ELSE /\ tasks' = [tasks EXCEPT ![t] = CacheReturned(@, down)]
            /\ UNCHANGED <<clients, cache, size>>
    /\ UNCHANGED <<now, ttl, max_size, ret, requests_per_minute, burst, calls>>
    /\ UNCHANGED <<routeVars, server, validated, keyed, socksVars, httpVars>>

\* The response has been sent.
TaskFinish(t) ==
    /\ tasks[t].pc = "done"
    /\ tasks' = [tasks EXCEPT ![t] = NoTask]
    /\ UNCHANGED <<now, cacheVars, rateVars, routeVars, server, validated, keyed>>
    /\ UNCHANGED <<socksVars, httpVars>>

TaskTick == Advance /\ UNCHANGED <<cacheVars, rateVars, routeVars, coreVars, socksVars, httpVars>>

TasksNext ==
    \/ \E t \in TaskIds, request \in TaskRequests : TaskArrive(t, request)
    \/ \E t \in TaskIds, down \in Downstreams : TaskResume(t, down)
    \/ \E t \in TaskIds : TaskFinish(t)
    \/ TaskTick

(***************************************************************************)
(* The specifications.                                                     *)
(***************************************************************************)
(***************************************************************************)
(* _get_cache_key on requests with a query string and with their headers   *)
(* in the order the client sent them.  A pair of calls is kept in keyed.   *)
(***************************************************************************)
\* The sequences without repetition of at most n members of S.
Arrangements(S, n) ==
    UNION {{s \in [1..k -> S] : \A i, j \in 1..k : i # j => s[i] # s[j]} : k \in 0..n}

\* The query strings: the items a=1 and b=2, in either order.
QueryItems == {<<<<"a">>, <<"1">>>>, <<<<"b">>, <<"2">>>>}
Queries == Arrangements(QueryItems, MaxQuery)

\* The header lists: each name at most once, in any order.
KeyHeaderItems ==
    {<<"Accept", <<"t">>>>, <<"Accept", <<"u">>>>, <<"Accept-Encoding", <<"g">>>>,
     <<"X-Other", <<"1">>>>}
KeyHeaders ==
    {h \in Arrangements(KeyHeaderItems, 3) :
        \A i, j \in DOMAIN h : i # j => h[i][1] # h[j][1]}

KeyRequests ==
    [method : {"GET", "POST"}, path : {P_X}, query : Queries, headers : KeyHeaders]

\* A lookup that takes the first header of the request, whatever its name.
MultiDictGetFirst(headers, name) ==
    IF headers = << >> THEN << >> ELSE headers[1][2]

\* request.headers.get(name, ''): the value of the first header of the name.
MultiDictGet(headers, name) ==
    IF \E i \in DOMAIN headers : headers[i][1] = name
    THEN headers[CHOOSE i \in DOMAIN headers :
                    /\ headers[i][1] = name
                    /\ \A j \in 1..(i - 1) : headers[j][1] # name][2]
    ELSE << >>

\* The query string of the URL: k=v items joined with &.
RECURSIVE QueryString(_)
QueryString(query) ==
    IF query = << >> THEN << >>
    ELSE Head(query)[1] \o <<"=">> \o Head(query)[2]
         \o (IF Tail(query) = << >> THEN << >> ELSE <<"&">> \o QueryString(Tail(query)))

\* str(request.url) with the query string; request.query iterates the items
\* in the order of the URL.
FullUrl(request) ==
    Url(request) \o (IF request.query = << >> THEN << >>
                     ELSE <<"?">> \o QueryString(request.query))

\* _get_cache_key.
RequestCacheKey(request) ==
    key_parts(request.method, FullUrl(request),
              MultiDictGet(request.headers, "Accept"),
              MultiDictGet(request.headers, "Accept-Encoding"),
              request.query)

NoKeys == [op |-> "none", first |-> << >>, second |-> << >>, keys |-> << >>]

\* _get_cache_key is called for two requests.
GetCacheKeys(request1, request2) ==
    /\ keyed.op = "none"
    /\ keyed' = [op |-> "_get_cache_key", first |-> request1, second |-> request2,
                 keys |-> <<RequestCacheKey(request1), RequestCacheKey(request2)>>]
    /\ UNCHANGED <<now, server, validated, tasks, cacheVars, rateVars, routeVars, socksVars, httpVars>>

\* The calls have returned.
KeysDone ==
    /\ keyed.op = "_get_cache_key"
    /\ keyed' = NoKeys
    /\ UNCHANGED <<now, server, validated, tasks, cacheVars, rateVars, routeVars, socksVars, httpVars>>

KeyNext ==
    \/ /\ keyed.op = "none"
       /\ \E request1, request2 \in KeyRequests : GetCacheKeys(request1, request2)
    \/ KeysDone

(***************************************************************************)
(* The configuration (config.py) and the ProxyServer (server.py), as       *)
(* main.py drives it.  A dict is a function from its keys.                 *)
(***************************************************************************)
Modes == {"forward", "reverse", "socks5"}

\* dict.get(key, {}) of a dict of dicts.
DictGet(dict, key) == IF key \in DOMAIN dict THEN dict[key] ELSE << >>

\* A dict with the key, for each of the values, and the dict without it.
Optional(key, values) == {<< >>} \cup {(key :> v) : v \in values}

T_OK == ("name" :> "a" @@ "host" :> "10.1.0.1" @@ "port" :> 8080)
T_NO_PORT == ("name" :> "a" @@ "host" :> "10.1.0.1")

\* proxy.forward, proxy.socks5 and proxy.reverse as the file may give them.
ForwardSections == {<< >>, ("require_auth" :> FALSE)}
Socks5Sections == {<< >>, ("require_auth" :> FALSE)}
ReverseSections == {<< >>, ("targets" :> <<T_OK>>), ("targets" :> <<T_NO_PORT>>)}
ModeValues == Modes \cup {"invalid"}

\* The `proxy` dicts: any of the keys mode, forward, reverse and socks5.
ProxySections ==
    {m @@ f @@ r @@ s : m \in Optional("mode", ModeValues),
                        f \in Optional("forward", ForwardSections),
                        r \in Optional("reverse", ReverseSections),
                        s \in Optional("socks5", Socks5Sections)}

\* The `server` dicts: any of the keys host and port.
ServerSections ==
    {h @@ p : h \in Optional("host", {"127.0.0.1"}), p \in Optional("port", {8080})}

\* The configurations validate_config is given.
Configs ==
    {s @@ p : s \in Optional("server", ServerSections), p \in Optional("proxy", ProxySections)}

\* The configurations main() constructs a ProxyServer from: start() reads
\* server.host and server.port.
ServerConfigs ==
    {c \in Configs : /\ DOMAIN c = {"server", "proxy"}
                     /\ DOMAIN c["server"] = {"host", "port"}}

\* validate_config.
ModeUnchecked(mode) == TRUE

ModeChecked(mode) == mode \in {"forward", "reverse", "socks5"}

validate_config(config) ==
    IF \E key \in {"server", "proxy"} : key \notin DOMAIN config THEN FALSE
    ELSE IF ~(\A k \in {"host", "port"} : k \in DOMAIN DictGet(config, "server")) THEN FALSE
    ELSE IF "mode" \notin DOMAIN DictGet(config, "proxy") THEN FALSE
    ELSE IF ~ModeChecked(config["proxy"]["mode"]) THEN FALSE
    ELSE IF /\ config["proxy"]["mode"] = "reverse"
            /\ "targets" \notin DOMAIN DictGet(config["proxy"], "reverse") THEN FALSE
    ELSE TRUE

NoValidation == [op |-> "none", config |-> << >>, result |-> FALSE]

\* One call of validate_config.
ValidateConfig(config) ==
    /\ validated.op = "none"
    /\ validated' = [op |-> "validate_config", config |-> config,
                     result |-> validate_config(config)]
    /\ UNCHANGED <<now, server, keyed, tasks, cacheVars, rateVars, routeVars, socksVars, httpVars>>

\* The call has returned.
ValidateDone ==
    /\ validated.op = "validate_config"
    /\ validated' = NoValidation
    /\ UNCHANGED <<now, server, keyed, tasks, cacheVars, rateVars, routeVars, socksVars, httpVars>>

ConfigNext ==
    \/ \E config \in Configs : ValidateConfig(config)
    \/ ValidateDone

\* The result of a constructor: the exception raised, "" for none, and the
\* handlers created.
Made(handlers) == [exc |-> "", handlers |-> handlers]
Failed(exc) == [exc |-> exc, handlers |-> {}]

\* ForwardProxyHandler.__init__ subscripts config['proxy']['forward'],
\* Socks5ProxyHandler.__init__ config['proxy']['socks5']; the constructor of
\* ReverseProxyHandler subscripts name, host and port of every target.
ForwardProxyHandler(config) ==
    IF "forward" \in DOMAIN config["proxy"] THEN Made({"ForwardProxyHandler"})
    ELSE Failed("KeyError")

ReverseProxyHandler(config) ==
    LET tgts == DictGet(DictGet(config["proxy"], "reverse"), "targets")
    IN  IF \A i \in DOMAIN tgts : {"name", "host", "port"} \subseteq DOMAIN tgts[i]
        THEN Made({"ReverseProxyHandler"})
        ELSE Failed("KeyError")

Socks5ProxyHandler(config) ==
    IF "socks5" \in DOMAIN config["proxy"] THEN Made({"Socks5ProxyHandler"})
    ELSE Failed("KeyError")

\* A dispatch that takes every unknown mode for the forward mode.
SetupHandlersLenient(config, proxy_mode) ==
    IF proxy_mode = "reverse" THEN ReverseProxyHandler(config)
    ELSE IF proxy_mode = "socks5" THEN Socks5ProxyHandler(config)
    ELSE ForwardProxyHandler(config)

\* ProxyServer._setup_handlers.
_setup_handlers(config, proxy_mode) ==
    IF proxy_mode = "forward" THEN ForwardProxyHandler(config)
    ELSE IF proxy_mode = "reverse" THEN ReverseProxyHandler(config)
    ELSE IF proxy_mode = "socks5" THEN Socks5ProxyHandler(config)
    ELSE Failed("ValueError")

\* The process before main() has constructed the server.  bound: a listening
\* socket was opened at some time; severed: the requests and relays that were
\* cut off before they finished; logged: the loop was handed an exception
\* that left the task of a connection.
NoServer ==
    [pc |-> "none", config |-> << >>, proxy_mode |-> "", handlers |-> {}, exc |-> "",
     runner |-> FALSE, site |-> FALSE, starting |-> FALSE,
     listeners |-> 0, bound |-> FALSE, inflight |-> 0, severed |-> 0, logged |-> FALSE]

CoreUnchanged == UNCHANGED <<now, validated, keyed, tasks, cacheVars, rateVars, routeVars, socksVars, httpVars>>

\* ProxyServer.__init__, called by main().  An exception ends the process.
ProxyServer(config) ==
    /\ server.pc = "none"
    /\ IF "mode" \notin DOMAIN config["proxy"]
       THEN server' = [server EXCEPT !.pc = "failed", !.config = config, !.exc = "KeyError"]
       ELSE \E made \in {_setup_handlers(config, config["proxy"]["mode"])} :
               server' = [server EXCEPT !.pc = IF made.exc = "" THEN "constructed" ELSE "failed",
                                        !.config = config,
                                        !.proxy_mode = config["proxy"]["mode"],
                                        !.handlers = made.handlers,
                                        !.exc = made.exc]
    /\ CoreUnchanged

\* ProxyServer.start, called by main() after the constructor.  In the HTTP
\* modes the listening socket is bound before start returns, or the OSError
\* of the bind ends the process; in the socks5 mode a task is created.
start(bind) ==
    /\ server.pc = "constructed"
    /\ IF server.proxy_mode = "socks5"
       THEN server' = [server EXCEPT !.pc = "running", !.starting = TRUE]
       ELSE IF bind
       THEN server' = [server EXCEPT !.pc = "running", !.runner = TRUE, !.site = TRUE,
                                     !.listeners = 1, !.bound = TRUE]
       ELSE server' = [server EXCEPT !.pc = "failed", !.runner = TRUE, !.site = TRUE,
                                     !.exc = "OSError"]
    /\ CoreUnchanged

\* ProxyServer.start_socks5_server, run by the loop: asyncio.start_server
\* binds the listening socket or raises; the task's result, the asyncio
\* server, is kept nowhere.
start_socks5_server(bind) ==
    /\ server.pc = "running" /\ server.starting
    /\ server' = [server EXCEPT !.starting = FALSE,
                                !.listeners = IF bind THEN 1 ELSE 0,
                                !.bound = bind]
    /\ CoreUnchanged

\* The listener accepts a connection: a request or a relay is in flight.
Accept ==
    /\ server.pc = "running" /\ server.listeners = 1
    /\ server.inflight < MaxInflight
    /\ server' = [server EXCEPT !.inflight = @ + 1]
    /\ CoreUnchanged

\* A request or relay in flight finishes.
Finish ==
    /\ server.pc \in {"running", "closing"}
    /\ server.inflight > 0
    /\ server' = [server EXCEPT !.inflight = @ - 1]
    /\ CoreUnchanged

\* main.shutdown up to its first suspension.  close() creates the
\* coroutines site.stop() and runner.cleanup() and awaits neither;
\* wait_closed() awaits runner.cleanup() when there is a runner: the site
\* closes its listening socket and the runner waits for the requests in
\* flight.  Without a runner (socks5) wait_closed() returns at once and
\* shutdown goes on to cancel every other task of the loop: the relays in
\* flight and the start task if it has not run; then it stops the loop.
shutdown ==
    /\ server.pc = "running"
    /\ IF server.runner
       THEN server' = [server EXCEPT !.pc = "closing", !.listeners = 0]
       ELSE server' = [server EXCEPT !.pc = "stopped", !.starting = FALSE,
                                     !.severed = @ + server.inflight, !.inflight = 0]
    /\ CoreUnchanged

\* runner.cleanup() returns when no request is in flight; shutdown finds no
\* task to cancel and stops the loop.
Drained ==
    /\ server.pc = "closing" /\ server.inflight = 0
    /\ server' = [server EXCEPT !.pc = "stopped"]
    /\ CoreUnchanged

\* The shutdown timeout of the runner passes with requests in flight: their
\* handlers are cancelled and their connections closed.
ShutdownTimeout ==
    /\ server.pc = "closing" /\ server.inflight > 0
    /\ server' = [server EXCEPT !.pc = "stopped", !.severed = @ + server.inflight,
                                !.inflight = 0]
    /\ CoreUnchanged

CoreIdle ==
    server = NoServer /\ validated = NoValidation /\ keyed = NoKeys /\ tasks = NoTasks

ServerNext ==
    \/ \E config \in ServerConfigs : ProxyServer(config)
    \/ \E bind \in BOOLEAN : start(bind)
    \/ \E bind \in BOOLEAN : start_socks5_server(bind)
    \/ Accept
    \/ Finish
    \/ shutdown
    \/ Drained
    \/ ShutdownTimeout

(***************************************************************************)
(* A SOCKS5 session beside the listener and the relays of other sessions.  *)
(* asyncio runs handle_connection as a task of its own for every           *)
(* connection accepted; `session` is one of them, server.inflight counts   *)
(* the others.                                                             *)
(***************************************************************************)
\* A loop whose exception handler stops it: the listener and every task go.
ExceptionHandlerStops(srv) ==
    [srv EXCEPT !.logged = TRUE, !.pc = "stopped", !.listeners = 0,
                !.severed = @ + srv.inflight, !.inflight = 0]

\* loop.call_exception_handler for an exception that left the task of a
\* connection: no handler is set, and the default one logs.
call_exception_handler(srv) == [srv EXCEPT !.logged = TRUE]

\* The server once main() has constructed and started it in the socks5 mode
\* and start_socks5_server has bound the listening socket.
Socks5Running ==
    [NoServer EXCEPT
       !.pc = "running",
       !.config = CHOOSE c \in ServerConfigs :
                      /\ DOMAIN c["proxy"] = {"mode", "socks5"}
                      /\ c["proxy"]["mode"] = "socks5",
       !.proxy_mode = "socks5", !.handlers = {"Socks5ProxyHandler"},
       !.listeners = 1, !.bound = TRUE]

\* handle_connection's finally after writer.close(): `await
\* writer.wait_closed()` returns, or raises the error the connection was
\* lost with; the exception leaves the task and reaches the loop.
HandleConnectionDone(wait_closed_ok) ==
    /\ session.pc = "closed"
    /\ session' = [session EXCEPT !.pc = "done"]
    /\ server' = IF wait_closed_ok THEN server ELSE call_exception_handler(server)
    /\ UNCHANGED <<now, require_auth, users, sockname, validated, keyed, tasks>>
    /\ UNCHANGED <<cacheVars, rateVars, routeVars, httpVars>>

\* The listener accepts the next connection; its handle_connection starts.
NextConnection ==
    /\ session.pc = "done"
    /\ server.pc = "running" /\ server.listeners = 1
    /\ session' = NewSession
    /\ UNCHANGED <<now, require_auth, users, sockname>>
    /\ UNCHANGED <<cacheVars, rateVars, routeVars, coreVars, httpVars>>

SessionsNext ==
    \/ SocksNext
    \/ \E wait_closed_ok \in BOOLEAN : HandleConnectionDone(wait_closed_ok)
    \/ NextConnection
    \/ Accept
    \/ Finish

InitSessions ==
    /\ now = 0 /\ CacheIdle /\ RateIdle /\ RouteIdle /\ SocksInit /\ ForwardIdle
    /\ PipelineIdle
    /\ server = Socks5Running
    /\ validated = NoValidation /\ keyed = NoKeys /\ tasks = NoTasks
SpecSessions == InitSessions /\ [][SessionsNext]_vars

InitServer ==
    now = 0 /\ CacheIdle /\ RateIdle /\ RouteIdle /\ SocksIdle /\ ForwardIdle /\ PipelineIdle /\ CoreIdle
SpecServer == InitServer /\ [][ServerNext]_vars

InitKey ==
    now = 0 /\ CacheIdle /\ RateIdle /\ RouteIdle /\ SocksIdle /\ ForwardIdle /\ PipelineIdle /\ CoreIdle
SpecKey == InitKey /\ [][KeyNext]_vars

InitConfig ==
    now = 0 /\ CacheIdle /\ RateIdle /\ RouteIdle /\ SocksIdle /\ ForwardIdle /\ PipelineIdle /\ CoreIdle
SpecConfig == InitConfig /\ [][ConfigNext]_vars

InitCache ==
    now = 0 /\ CacheInit /\ RateIdle /\ RouteIdle /\ SocksIdle /\ ForwardIdle /\ PipelineIdle /\ CoreIdle
SpecCache == InitCache /\ [][CacheNext]_vars

InitRate ==
    now = 0 /\ CacheIdle /\ RateInit /\ RouteIdle /\ SocksIdle /\ ForwardIdle /\ PipelineIdle /\ CoreIdle
SpecRate == InitRate /\ [][RateNext]_vars

InitRoute ==
    now = 0 /\ CacheIdle /\ RateIdle /\ RouteInit /\ SocksIdle /\ ForwardIdle /\ PipelineIdle /\ CoreIdle
SpecRoute == InitRoute /\ [][RouteNext]_vars

InitSocks ==
    now = 0 /\ CacheIdle /\ RateIdle /\ RouteIdle /\ SocksInit /\ ForwardIdle /\ PipelineIdle /\ CoreIdle
SpecSocks == InitSocks /\ [][SocksNext]_vars

InitForward ==
    /\ now = 0 /\ CacheIdle /\ RateIdle /\ RouteIdle /\ ForwardConfig /\ ForwardInit
    /\ PipelineIdle /\ CoreIdle
SpecForward == InitForward /\ [][ForwardNext]_vars

InitSelect ==
    now = 0 /\ CacheIdle /\ RateIdle /\ RouteIdle /\ SocksIdle /\ ForwardIdle /\ PipelineIdle /\ CoreIdle
SpecSelect == InitSelect /\ [][SelectNext]_vars

InitReverse ==
    now = 0 /\ CacheIdle /\ RateIdle /\ RouteInit /\ SocksIdle /\ ForwardIdle /\ PipelineIdle /\ CoreIdle
SpecReverse == InitReverse /\ [][ReverseNext]_vars

\* A server in an HTTP mode; the stages read the users of the configuration.
InitPipeline ==
    /\ now = 0 /\ RouteIdle /\ ForwardIdle /\ PipelineInit /\ CoreIdle
    /\ require_auth = FALSE
    /\ users \in HttpUserConfigs
    /\ sockname = << >>
    /\ session = [NewSession EXCEPT !.pc = "off"]
SpecPipeline == InitPipeline /\ [][PipelineNext]_vars

\* A server in an HTTP mode with the rate limiting and the caching stage,
\* serving several requests at a time.
InitTasks ==
    /\ now = 0 /\ RouteIdle /\ ForwardIdle /\ SocksIdle
    /\ middlewares = setup_middlewares(FALSE, TRUE, TRUE)
    /\ auth_method = "basic"
    /\ requests_per_minute = 60
    /\ burst \in 1..MaxPipelineBurst
    /\ clients = << >>
    /\ calls = [c \in ClientIds |-> NoCalls]
    /\ CacheInit
    /\ old_style \in BOOLEAN
    /\ pipe = NoPipe
    /\ answered = << >>
    /\ CoreIdle
SpecTasks == InitTasks /\ [][TasksNext]_vars

(***************************************************************************)
(* Claims about MemoryCache, checked under SpecCache.                      *)
(***************************************************************************)
RECURSIVE SumSizes(_)
SumSizes(c) == IF c = <<>> THEN 0 ELSE Head(c).size + SumSizes(Tail(c))

Last(s) == s[Len(s)]

\* C1: after every set, get and delete call the sum of the sizes of the stored
\* entries is at most the configured capacity max_size.
C1_CacheSizeInvariant == SumSizes(cache) <= max_size

\* C1 witness: a set that had to evict has filled the cache to its capacity.
C1_Witness ==
    /\ ret.op = "set" /\ ret.ok /\ ret.evicted # <<>>
    /\ SumSizes(cache) = max_size

\* C2 as stated: after a set whose value alone exceeds the capacity, the call
\* has returned false and a get of that key returns absent.
C2_RejectedThenAbsent ==
    (ret.op = "set" /\ EntrySize(ret.value) > max_size)
        => /\ ~ret.ok
           /\ get([cache |-> cache, size |-> size], ret.key, now).value = None

\* C2 amended: a set whose value alone exceeds the capacity returns false and
\* leaves the cache as it was, so that a get of that key returns afterwards
\* what it returned before: absent unless the key held a live entry.
C2_RejectedSetIsNoOp ==
    [][(ret'.op = "set" /\ EntrySize(ret'.value) > max_size)
         => /\ ~ret'.ok
            /\ cache' = cache
            /\ size' = size
            /\ get([cache |-> cache', size |-> size'], ret'.key, now').value
                 = get([cache |-> cache, size |-> size], ret'.key, now).value
            /\ (~HasKey(cache, ret'.key)
                 => get([cache |-> cache', size |-> size'], ret'.key, now').value = None)]_vars

\* C2 witness: an oversized set was rejected for a key that holds a live entry.
C2_Witness ==
    /\ ret.op = "set" /\ ~ret.ok /\ EntrySize(ret.value) > max_size
    /\ HasKey(cache, ret.key)
    /\ ~IsExpired(now, Entry(cache, ret.key))

\* C3: a get made later than the entry's expiration returns absent and removes
\* the entry, whose size no longer counts; and an entry set with ttl seconds
\* expires ttl seconds after the set, so that a set with ttl = 1 followed by
\* a get 2 seconds later returns absent.
C3_LazyExpiry ==
    /\ [][(ret'.op = "get" /\ HasKey(cache, ret'.key)
            /\ now > Entry(cache, ret'.key).expires)
           => /\ ret'.value = None
              /\ ~HasKey(cache', ret'.key)
              /\ size' = size - Entry(cache, ret'.key).size
              /\ SumSizes(cache') = SumSizes(cache) - Entry(cache, ret'.key).size]_vars
    /\ []((ret.op = "set" /\ ret.ok /\ ret.ttl >= 1)
           => /\ HasKey(cache, ret.key)
              /\ Entry(cache, ret.key).expires = now + ret.ttl
              /\ get([cache |-> cache, size |-> size], ret.key, now + ret.ttl + 1).value
                   = None)

\* C3 witness: a get has found an expired entry and removed it.
C3_Witness ==
    /\ ret.op = "get" /\ ret.expired /\ ret.value = None
    /\ ~HasKey(cache, ret.key)

\* C4: when a set makes room, the entries are evicted in increasing order of
\* expiration and only until the new entry fits: every evicted entry expires
\* no later than every earlier entry that survives, and without the last
\* eviction the new entry would not have fitted.
C4_EvictionOrder ==
    (ret.op = "set" /\ ret.ok) =>
        /\ \A i \in 1..Len(ret.evicted), j \in 1..Len(cache) :
              cache[j].key # ret.key => ret.evicted[i].expires <= cache[j].expires
        /\ \A i, j \in 1..Len(ret.evicted) :
              i < j => ret.evicted[i].expires <= ret.evicted[j].expires
        /\ ret.evicted # <<>> => size + Last(ret.evicted).size > max_size

\* C4 witness: exactly one entry was evicted and an entry that expires later
\* has survived.
C4_Witness ==
    /\ ret.op = "set" /\ ret.ok /\ Len(ret.evicted) = 1
    /\ \E j \in 1..Len(cache) :
          /\ cache[j].key # ret.key
          /\ cache[j].expires > ret.evicted[1].expires

(***************************************************************************)
(* Claims about RateLimiter, checked under SpecRate.                       *)
(***************************************************************************)
\* C5 as stated: with burst capacity B and no time elapsing, the first B calls
\* of an unseen client are admitted and call B + 1 is denied.
C5_BurstAdmission ==
    \A c \in DOMAIN clients :
        /\ calls[c].n \in 1..burst => calls[c].allowed
        /\ calls[c].n = burst + 1 => ~calls[c].allowed

\* C6: at 60 requests per minute, a call made one second after a denied call
\* is admitted, and the call made straight after it, at the same time, is
\* denied.
C6_OneTokenPerSecond ==
    requests_per_minute = 60 =>
        \A c \in DOMAIN clients :
            /\ calls[c].wait = "second" => calls[c].allowed
            /\ calls[c].wait = "third" => ~calls[c].allowed

\* C6 witness: denied, admitted a second later, denied again at once.
C6_Witness ==
    /\ requests_per_minute = 60
    /\ \E c \in DOMAIN clients : calls[c].wait = "third" /\ ~calls[c].allowed

\* C7: every bucket holds between 0 tokens and the burst capacity.
C7_TokensInRange ==
    \A c \in DOMAIN clients :
        /\ 0 <= clients[c].tokens
        /\ clients[c].tokens <= burst * TokenScale

\* C7 witness: one client has just been denied with a fraction of a token
\* left; another, back after its first burst, found its bucket refilled to
\* the capacity and took one token from it.
C7_Witness ==
    \E c, d \in DOMAIN clients :
        /\ LastDenied(calls[c])
        /\ 0 < clients[c].tokens /\ clients[c].tokens < TokenScale
        /\ calls[d].n = 0 /\ calls[d].allowed
        /\ clients[d].tokens = (burst - 1) * TokenScale

(***************************************************************************)
(* Claims about path routing, checked under SpecRoute.                     *)
(***************************************************************************)
\* p is a literal prefix of the string x.
IsPrefixOf(p, x) == \A i \in 1..Len(p) : i <= Len(x) /\ x[i] = p[i]

\* The registered prefixes that are a prefix of the path.
Matching(path) ==
    {i \in 1..Len(path_routing) : IsPrefixOf(path_routing[i].prefix, path)}

\* C8: the lookup returns the target of the longest registered prefix that is
\* a prefix of the path, and no target when there is none; with the table
\* {/api: svc1, /api/v2: svc2}, /api/v2/users goes to svc2, /api/other to
\* svc1 and /unmatched nowhere.
C8_LongestPrefix ==
    route.op = "lookup" =>
        /\ Matching(route.path) = {} => route.target = NoTarget
        /\ \A i \in Matching(route.path) :
              (\A j \in Matching(route.path) :
                  Len(path_routing[j].prefix) <= Len(path_routing[i].prefix))
              => route.target = TargetsGet(targets, path_routing[i].target)
        /\ (path_routing = ApiTable /\ "svc2" \in DOMAIN targets) =>
              /\ route.path = S_api_v2_users => route.target.name = "svc2"
              /\ route.path = S_api_other => route.target.name = "svc1"
              /\ route.path = S_unmatched => route.target = NoTarget

\* C8 witness: /api/v2/users has been routed to svc2 past the shorter /api.
C8_Witness ==
    /\ path_routing = ApiTable
    /\ route.op = "lookup" /\ route.path = S_api_v2_users
    /\ route.target.name = "svc2"

\* The last n elements of a sequence.
Suffix(seq, n) == SubSeq(seq, Len(seq) - n + 1, Len(seq))

\* The client offered method m in a greeting that was read whole.
Offered(m) ==
    LET g == session.greet
    IN  /\ g.hdr /\ g.version = VERSION /\ Len(g.methods) = g.nmethods
        /\ \E i \in 1..Len(g.methods) : g.methods[i] = m

\* A version 5 greeting has been read whole.
GreetingRead ==
    LET g == session.greet
    IN  g.hdr /\ g.version = VERSION /\ Len(g.methods) = g.nmethods

\* C9: once a version 5 greeting is read, the first reply is 05 02 when
\* require_auth is set and 0x02 was offered, 05 00 when require_auth is not
\* set and 0x00 was offered, and otherwise 05 FF, after which nothing more is
\* written and the connection is closed; the greeting 05 01 00 gets 05 00
\* without require_auth and 05 FF plus close with it.
C9_MethodSelection ==
    GreetingRead =>
        /\ IF require_auth /\ Offered(USERNAME_PASSWORD)
           THEN SubSeq(session.out, 1, 2) = <<5, 2>>
           ELSE IF ~require_auth /\ Offered(NO_AUTH)
           THEN SubSeq(session.out, 1, 2) = <<5, 0>>
           ELSE /\ session.out = <<5, 255>>
                /\ session.pc = "closed" /\ session.closed
        /\ (session.greet.methods = <<0>> /\ ~require_auth) =>
              SubSeq(session.out, 1, 2) = <<5, 0>>
        /\ (session.greet.methods = <<0>> /\ require_auth) =>
              session.out = <<5, 255>> /\ session.closed

\* C9 witness: with require_auth set, the greeting 05 01 00 was answered
\* 05 FF and the connection closed.
C9_Witness ==
    /\ require_auth
    /\ GreetingRead /\ session.greet.methods = <<0>>
    /\ session.last = "handshake"
    /\ session.out = <<5, 255>> /\ session.closed

\* The reply that carries the local address and port of the accepted
\* connection with the given code.
LocalReply(code) ==
    LET host == sockname[1]
        port == sockname[2]
    IN  IF HasColon(host)
        THEN <<5, code, 0, 4>> \o inet_pton6(host) \o PackPort(port)
        ELSE <<5, code, 0, 1>> \o inet_pton4(host) \o PackPort(port)

\* C10: after a CONNECT whose upstream connection succeeds the last bytes
\* written are the reply with code 0x00 and the local address and port of the
\* accepted connection (IPv6-encoded when the address contains ':') and the
\* session is relaying; after one whose upstream connection fails the last
\* bytes written are a reply with code 0x01 and the connection is closed.
C10_ConnectReply ==
    session.last = "connect" =>
        IF session.dial = "ok"
        THEN /\ session.pc = "relaying"
             /\ Len(session.out) >= Len(LocalReply(0))
             /\ Suffix(session.out, Len(LocalReply(0))) = LocalReply(0)
        ELSE /\ session.pc = "closed" /\ session.closed
             /\ Len(session.out) >= 10
             /\ SubSeq(Suffix(session.out, 10), 1, 2) = <<5, 1>>

\* The bytes written to the client after the success reply.
RelayedToClient ==
    LET k == (IF session.method = USERNAME_PASSWORD THEN 4 ELSE 2) + 10
    IN  SubSeq(session.out, k + 1, Len(session.out))

\* C11: while the tunnel is relaying, what was written to the upstream is an
\* in-order, unmodified prefix of what was read from the client, and what was
\* written to the client after the success reply is such a prefix of what was
\* read from the upstream; whatever was read has been written on.
C11_RelayPrefix ==
    session.pc = "relaying" =>
        /\ IsPrefixOf(session.up_out, session.cl_in)
        /\ IsPrefixOf(RelayedToClient, session.up_in)
        /\ Len(session.up_out) = Len(session.cl_in)
        /\ Len(RelayedToClient) = Len(session.up_in)

\* C11 witness: two chunks of the client have reached the upstream in order
\* and a chunk of the upstream has come back to the client.
C11_Witness ==
    /\ session.pc = "relaying"
    /\ session.cl_in = <<0, 255>> /\ session.up_out = <<0, 255>>
    /\ session.up_in = <<255>> /\ RelayedToClient = <<255>>

\* The request was read whole: version 5, a supported address type, the
\* address and the port.
RequestRead ==
    /\ session.req.hdr /\ session.req.version = 5 /\ session.req.complete
    /\ session.req.atyp \in {1, 3, 4}

CanonicalName(name) ==
    IF name = "connection" THEN "Connection"
    ELSE IF name = "trailers" THEN "Trailers"
    ELSE name

\* C13: an outbound request of the forward primitive carries none of the
\* hop-by-hop headers Connection, Keep-Alive, Proxy-Authenticate,
\* Proxy-Authorization, TE, Trailers, Transfer-Encoding, Upgrade, whatever the
\* inbound request and the extra headers contain.
C13_NoHopByHop ==
    fwd.sent =>
        \A name \in DOMAIN fwd.outbound :
            CanonicalName(name) \notin
                {"Connection", "Keep-Alive", "Proxy-Authenticate",
                 "Proxy-Authorization", "TE", "Trailers", "Transfer-Encoding",
                 "Upgrade"}

\* C14: whenever the outbound request fails at the transport level
\* (connection refused, DNS failure, dropped connection, the 30-second
\* timeout) the forward primitive returns a 502 response and raises nothing.
C14_TransportFailureIs502 ==
    (fwd.sent /\ fwd.outcome.kind = "failure") =>
        fwd.result.raised = "none" /\ fwd.result.status = 502

\* C19: a request whose proxy credentials are required and missing or invalid
\* gets 407 with a Proxy-Authenticate challenge and nothing is forwarded;
\* otherwise a non-CONNECT request gets 403, with nothing forwarded, when the
\* host of its URL fails the allow-list, and is forwarded exactly when that
\* host passes it.
C19_ForwardDecision ==
    fwd.op = "handle" =>
        IF require_auth /\ ~_authenticate(require_auth, users, fwd.request.headers)
        THEN /\ fwd.result = Response(407, "Proxy-Authenticate")
             /\ ~fwd.sent
        ELSE fwd.request.method # "CONNECT" =>
                IF _is_domain_allowed(allowed_domains, fwd.request.host)
                THEN fwd.sent
                ELSE ~fwd.sent /\ fwd.result = Response(403, "")

\* A pattern matches a whole domain: '*' stands for any substring, any other
\* character for itself.
RECURSIVE Glob(_, _)
Glob(pattern, domain) ==
    IF pattern = << >> THEN domain = << >>
    ELSE IF Head(pattern) = "*"
    THEN \E k \in 0..Len(domain) :
            Glob(Tail(pattern), SubSeq(domain, k + 1, Len(domain)))
    ELSE /\ domain # << >>
         /\ Head(domain) = Head(pattern)
         /\ Glob(Tail(pattern), Tail(domain))

\* C20: the allow-list check accepts a domain exactly when the list is empty
\* or some pattern matches the whole domain; *.example.com accepts
\* api.example.com and rejects example.com and evil.com.
C20_DomainAllowList ==
    fwd.op = "allowed" =>
        /\ fwd.allowed <=>
              \/ allowed_domains = << >>
              \/ \E i \in 1..Len(allowed_domains) : Glob(allowed_domains[i], fwd.domain)
        /\ allowed_domains = << <<"*", ".", "e", "x", "a", "m", "p", "l", "e", ".", "c", "o", "m">> >> =>
              /\ fwd.domain = D_API_EXAMPLE_COM => fwd.allowed
              /\ fwd.domain = D_EXAMPLE_COM => ~fwd.allowed
              /\ fwd.domain = D_EVIL_COM => ~fwd.allowed

\* C20 witness: *.example.com has accepted api.example.com.
C20_Witness ==
    /\ allowed_domains = <<D_STAR_EXAMPLE_COM>>
    /\ fwd.op = "allowed" /\ fwd.domain = D_API_EXAMPLE_COM /\ fwd.allowed

(***************************************************************************)
(* Claims about the middleware pipeline, checked under SpecPipeline.       *)
(***************************************************************************)
\* The place of a stage in the order logging, authentication, rate limiting,
\* caching, handler; error_middleware stands before them all.
Rank(stage) ==
    IF stage = "error_middleware" THEN 0
    ELSE IF stage = "logging_middleware" THEN 1
    ELSE IF stage = "auth_middleware" THEN 2
    ELSE IF stage = "rate_limit_middleware" THEN 3
    ELSE IF stage = "cache_middleware" THEN 4
    ELSE 5

\* The Authorization header of the request, empty when there is none.
Authorization(request) == HeaderGet(request.headers, "Authorization")

\* The headers that carry the credentials u:p of the configured user in a
\* form base64.b64decode reads: it skips characters outside its alphabet.
Honoured == {H_BASIC_U_P, H_LOWER_BASIC_U_P, H_BASIC_STRAY_CHAR}

\* The authentication stage turns the request of pipe away.
RejectedByAuth ==
    /\ pipe.checked
    /\ auth_method = "basic" => Authorization(pipe.request) \notin Honoured

\* C15: the stages run in the order logging, authentication, rate limiting,
\* caching, handler; a request that authentication rejects does not reach
\* the rate limiter (no bucket is made, no token taken), a request the rate
\* limiter denies reaches neither the cache nor the handler, and every
\* request passes through logging.
C15_StageOrder ==
    pipe.op = "request" =>
        /\ Entered(pipe.trace, "logging_middleware")
        /\ \A i, j \in 1..Len(pipe.trace) :
              i < j => Rank(pipe.trace[i]) < Rank(pipe.trace[j])
        /\ RejectedByAuth =>
              /\ ~Entered(pipe.trace, "rate_limit_middleware")
              /\ ~pipe.limited
              /\ clients = pipe.clients_before
        /\ (pipe.limited /\ ~pipe.allowed) =>
              /\ ~Entered(pipe.trace, "cache_middleware")
              /\ ~Entered(pipe.trace, "handler")
              /\ ~pipe.looked_up

\* The stage that entered last is a stage of setup_middlewares: none of them
\* handed the request on.
StoppedInStage ==
    pipe.trace[Len(pipe.trace)] \in
        {"auth_middleware", "rate_limit_middleware", "cache_middleware"}

\* C16: a request whose path is exactly /metrics or /health passes the
\* authentication, rate limiting and caching stages untouched: no check of
\* credentials, no bucket made and no token taken, no cache lookup and no
\* store, and the handler is reached; the path /health/x is not exempt.
C16_ExemptPaths ==
    (pipe.op = "request" /\ pipe.trace # << >>) =>
        /\ pipe.request.path \in {P_METRICS, P_HEALTH} =>
              /\ ~pipe.checked
              /\ ~pipe.limited /\ clients = pipe.clients_before
              /\ ~pipe.looked_up /\ ~pipe.stored /\ answered = pipe.seen_before
              /\ ~StoppedInStage /\ Entered(pipe.trace, "handler")
        /\ pipe.request.path = P_HEALTH_X =>
              /\ Entered(pipe.trace, "auth_middleware") => pipe.checked
              /\ Entered(pipe.trace, "rate_limit_middleware") => pipe.limited
              /\ (Entered(pipe.trace, "cache_middleware") /\ pipe.request.method = "GET")
                    => pipe.looked_up

\* C16 witness: a GET of /health without credentials went through the three
\* stages to the handler and was answered by it.
C16_Witness ==
    /\ pipe.op = "request" /\ pipe.request.path = P_HEALTH
    /\ pipe.request.method = "GET" /\ Authorization(pipe.request) = << >>
    /\ pipe.trace = <<"error_middleware", "logging_middleware", "auth_middleware",
                      "rate_limit_middleware", "cache_middleware", "handler">>
    /\ pipe.resp.status = 200

\* The authentication stage awaited its handler: a stage entered after it.
AuthInvokedHandler ==
    /\ Entered(pipe.trace, "auth_middleware")
    /\ pipe.trace[Len(pipe.trace)] # "auth_middleware"

C18_CachingStage ==
    (pipe.op = "request" /\ Entered(pipe.trace, "cache_middleware")) =>
        /\ pipe.request.method # "GET" => ~pipe.looked_up /\ ~pipe.stored
        /\ pipe.stored =>
              /\ pipe.request.method = "GET"
              /\ 200 <= pipe.down.status /\ pipe.down.status < 300
        /\ (/\ pipe.request.method = "GET"
            /\ _get_cache_key(pipe.request) \in DOMAIN pipe.seen_before) =>
              /\ ~Entered(pipe.trace, "handler")
              /\ pipe.resp = pipe.seen_before[_get_cache_key(pipe.request)]

(***************************************************************************)
(* Claims about the listener of forward mode, checked under SpecForward.   *)
(***************************************************************************)
\* C21: in forward mode a CONNECT request for host:port is taken by the
\* listener like the requests of the other verbs and reaches the forward
\* handler, which (the proxy credentials being in order) answers 403 when
\* the host fails the allow-list and 200 otherwise, and forwards nothing.
C21_ConnectAccepted ==
    (fwd.op = "dispatch" /\ fwd.request.port # 0) =>
        /\ fwd.reached
        /\ (/\ fwd.request.method = "CONNECT"
            /\ _authenticate(require_auth, users, fwd.request.headers)) =>
              /\ ~fwd.sent
              /\ fwd.result.status =
                    IF \/ allowed_domains = << >>
                       \/ \E i \in 1..Len(allowed_domains) :
                             Glob(allowed_domains[i], fwd.request.host)
                    THEN 200 ELSE 403

(***************************************************************************)
(* Claims about ReverseProxyHandler.handle, checked under SpecReverse.     *)
(***************************************************************************)
\* Some prefix of the routing table starts the path.
PrefixMatches(path) ==
    \E i \in 1..Len(path_routing) : IsPrefixOf(path_routing[i].prefix, path)

\* The names of the four headers the proxy sets, in any spelling the
\* requests use.
IsForwardedName(name) ==
    name \in {"X-Forwarded-For", "X-Forwarded-Proto", "X-Forwarded-Host",
              "X-Forwarded-Path", "x-forwarded-path"}

\* C22: the reverse handler answers 404 and forwards nothing when no routing
\* prefix matches; when a prefix matches (and names a registered target) it
\* forwards one request to the base URL of the target joined with the path,
\* carrying X-Forwarded-For, -Proto, -Host and -Path set from the inbound
\* connection, and no value the client supplied for one of these headers.
C22_ReverseForward ==
    fwd.op = "reverse" =>
        /\ ~PrefixMatches(fwd.request.path) =>
              ~fwd.sent /\ fwd.result = Response(404, "")
        /\ (PrefixMatches(fwd.request.path) /\ fwd.target # NoTarget) =>
              /\ fwd.sent
              /\ fwd.url = [scheme |-> fwd.target.scheme, host |-> fwd.target.host,
                            port |-> fwd.target.port, path |-> fwd.request.path]
              /\ \A name \in DOMAIN fwd.outbound :
                    IsForwardedName(name) =>
                        /\ name \in {"X-Forwarded-For", "X-Forwarded-Proto",
                                     "X-Forwarded-Host", "X-Forwarded-Path"}
                        /\ fwd.outbound[name] =
                              IF name = "X-Forwarded-For" THEN fwd.request.remote
                              ELSE IF name = "X-Forwarded-Proto" THEN fwd.request.scheme
                              ELSE IF name = "X-Forwarded-Host" THEN fwd.request.host
                              ELSE fwd.request.path
              /\ {"X-Forwarded-For", "X-Forwarded-Proto", "X-Forwarded-Host",
                  "X-Forwarded-Path"} \subseteq DOMAIN fwd.outbound

(***************************************************************************)
(* Claims about weighted selection, checked under SpecSelect.              *)
(***************************************************************************)
\* The sum of the weights of the first i targets.
Cumulative(tgts, i) == total_weight(SubSeq(tgts, 1, i))

\* The draw lies at or below the whole number n.
AtMost(r, n) == IF r.at = "point" THEN r.k <= n ELSE r.k + 1 <= n

\* The draws strictly between two neighbouring whole numbers that give the
\* i-th target: each such interval has length 1, the whole numbers between
\* them length 0, so their number is the share of the target in
\* [0, total_weight).
Share(tgts, i) ==
    Cardinality({k \in 0..(total_weight(tgts) - 1) :
                    _select_target(tgts, [at |-> "open", k |-> k]) = i})

\* C26: weighted selection over a list that is not empty, with weights >= 1,
\* returns a member of the list: the first target, in list order, whose
\* cumulative weight is >= the draw; so each target is chosen with a
\* frequency proportional to its weight (with weights 1 and 3 the second
\* target is chosen three times as often as the first).
C26_WeightedSelection ==
    fwd.op = "select" =>
        /\ \E i \in 1..Len(fwd.among) :
              /\ fwd.target = fwd.among[i]
              /\ AtMost(fwd.r, Cumulative(fwd.among, i))
              /\ \A j \in 1..(i - 1) : ~AtMost(fwd.r, Cumulative(fwd.among, j))
        /\ \A i \in 1..Len(fwd.among) : Share(fwd.among, i) = fwd.among[i].weight

\* C26 witness: with the weights 1 and 3, a draw above 1 has given the
\* second target.
C26_Witness ==
    /\ fwd.op = "select" /\ Len(fwd.among) = 2
    /\ fwd.among[1].weight = 1 /\ fwd.among[2].weight = 3
    /\ fwd.r = [at |-> "open", k |-> 1]
    /\ fwd.target.name = "B"

(***************************************************************************)
(* Claims about the construction and the shutdown of the server, checked   *)
(* under SpecServer, and about validate_config, under SpecConfig.          *)
(***************************************************************************)
\* The constructor was called and has returned or raised.
Constructed == server.pc # "none"

\* The handler class of a mode.
HandlerOf(mode) ==
    CASE mode = "forward" -> "ForwardProxyHandler"
      [] mode = "reverse" -> "ReverseProxyHandler"
      [] mode = "socks5" -> "Socks5ProxyHandler"

\* The configuration gives the mode.
HasMode(config) == "mode" \in DOMAIN config["proxy"]

\* The settings of the mode are there: proxy.forward in the forward mode,
\* proxy.socks5 in the socks5 mode; in the reverse mode every target has a
\* name, a host and a port.
HasSettings(config) ==
    LET proxy == config["proxy"]
        mode == proxy["mode"]
    IN  CASE mode = "forward" -> "forward" \in DOMAIN proxy
          [] mode = "socks5" -> "socks5" \in DOMAIN proxy
          [] mode = "reverse" ->
                \A t \in {DictGet(DictGet(proxy, "reverse"), "targets")} :
                    \A i \in DOMAIN t : {"name", "host", "port"} \subseteq DOMAIN t[i]

\* A mode other than forward, reverse and socks5 makes the constructor fail
\* with ValueError, and no listening socket was opened.
UnknownModeFails ==
    (Constructed /\ HasMode(server.config) /\ server.config["proxy"]["mode"] \notin Modes) =>
        /\ server.pc = "failed" /\ server.exc = "ValueError"
        /\ server.handlers = {}
        /\ ~server.bound /\ server.listeners = 0

\* The constructor has returned and created the one handler of the mode.
OneHandler ==
    /\ server.exc # "KeyError" /\ server.exc # "ValueError"
    /\ server.handlers = {HandlerOf(server.config["proxy"]["mode"])}

C24_Shutdown ==
    /\ server.severed = 0
    /\ server.pc = "stopped" => server.listeners = 0

\* C27: validate_config returns True exactly when the configuration has
\* `server` and `proxy`, server has host and port, proxy.mode is there and
\* one of forward, reverse, socks5, and in the reverse mode proxy.reverse
\* has `targets`.
C27_ValidateConfig ==
    validated.op = "validate_config" =>
        LET config == validated.config
        IN  validated.result <=>
               /\ {"server", "proxy"} \subseteq DOMAIN config
               /\ {"host", "port"} \subseteq DOMAIN config["server"]
               /\ "mode" \in DOMAIN config["proxy"]
               /\ config["proxy"]["mode"] \in Modes
               /\ config["proxy"]["mode"] = "reverse" =>
                     /\ "reverse" \in DOMAIN config["proxy"]
                     /\ "targets" \in DOMAIN config["proxy"]["reverse"]

\* C27 witnesses: a reverse configuration without targets was refused.
C27_Witness ==
    /\ validated.op = "validate_config" /\ ~validated.result
    /\ {"server", "proxy"} \subseteq DOMAIN validated.config
    /\ {"host", "port"} \subseteq DOMAIN validated.config["server"]
    /\ "mode" \in DOMAIN validated.config["proxy"]
    /\ validated.config["proxy"]["mode"] = "reverse"
    /\ "reverse" \in DOMAIN validated.config["proxy"]
    /\ "targets" \notin DOMAIN validated.config["proxy"]["reverse"]

(***************************************************************************)
(* Claims about the cache key, checked under SpecKey.                      *)
(***************************************************************************)
\* The value of the header of a request, the name being there at most once.
HeaderOf(request, name) ==
    {request.headers[i][2] : i \in {j \in DOMAIN request.headers : request.headers[j][1] = name}}

\* The sorted lists of the query parameters are the same: every item is as
\* many times in the one query as in the other.
SameSortedQuery(q1, q2) ==
    \A item \in QueryItems :
        Cardinality({i \in DOMAIN q1 : q1[i] = item}) = Cardinality({i \in DOMAIN q2 : q2[i] = item})

\* The two requests agree on method, full URL, Accept, Accept-Encoding and
\* the sorted query parameters.
Agree(r1, r2) ==
    /\ r1.method = r2.method
    /\ FullUrl(r1) = FullUrl(r2)
    /\ HeaderOf(r1, "Accept") = HeaderOf(r2, "Accept")
    /\ HeaderOf(r1, "Accept-Encoding") = HeaderOf(r2, "Accept-Encoding")
    /\ SameSortedQuery(r1.query, r2.query)

SessionOrder ==
    {<<"greeting", "auth">>, <<"greeting", "request">>, <<"greeting", "closed">>,
     <<"auth", "request">>, <<"auth", "closed">>,
     <<"request", "connecting">>, <<"request", "closed">>,
     <<"connecting", "relaying">>, <<"connecting", "closed">>,
     <<"relaying", "relaying">>, <<"relaying", "closed">>}

\* A method was selected and written to the client.
MethodSelected ==
    /\ session.method \in {NO_AUTH, USERNAME_PASSWORD}
    /\ Len(session.out) >= 2 /\ SubSeq(session.out, 1, 2) = <<VERSION, session.method>>

\* The sub-negotiation was read whole, in version 1, and authenticate_user
\* has accepted its credentials.
CredentialsAccepted ==
    /\ session.auth.ver = AUTH_VERSION /\ session.auth.complete
    /\ authenticate_user(users, session.auth.username, session.auth.password)

\* A request was read or an upstream connection was opened or tried.
RequestSeen ==
    \/ session.req # NoRequest
    \/ session.up # "none" \/ session.dial # "none"
    \/ session.pc \in {"connecting", "relaying"}

NoEarlyRequest ==
    RequestSeen =>
        /\ MethodSelected
        /\ require_auth => (session.method = USERNAME_PASSWORD /\ CredentialsAccepted)
        /\ session.method = USERNAME_PASSWORD => CredentialsAccepted

\* A step of the session follows the order.
OrderedStep == <<session.pc, session'.pc>> \in SessionOrder

\* C28: the session takes its states in the order Greeting, MethodSelected,
\* (Authenticating,) RequestReceived, Relaying or Rejected, Closed; no
\* request is read and no upstream connection is opened before a method is
\* selected and, when authentication is required, before the credentials
\* of the client are accepted.
C28_SessionOrder ==
    /\ []NoEarlyRequest
    /\ [][OrderedStep]_vars

\* C28 witness: with authentication required, a session whose credentials
\* were accepted relays.
C28_Witness ==
    /\ require_auth /\ CredentialsAccepted
    /\ session.pc = "relaying" /\ session.up = "open"
    /\ session.req.cmd = CONNECT

\* The bytes the relay has moved.
Relayed(ss) == <<ss.cl_in, ss.up_out, ss.up_in>>

\* The step that ends the relay forwards nothing, and a closed session
\* takes no step.
RelayEndStep ==
    /\ (session.pc = "relaying" /\ session'.pc = "closed") =>
          Relayed(session') = Relayed(session)
    /\ session.pc = "closed" => session' = session

\* C29: the relay ends when either direction completes: nothing more is
\* forwarded in the other direction, and afterwards the upstream socket and
\* the client socket are both closed, and stay so.
C29_RelayEnds ==
    /\ [](session.last = "relay_done" =>
            /\ session.ended \in Directions
            /\ session.pc = "closed"
            /\ session.up = "closed" /\ session.closed)
    /\ [][RelayEndStep]_vars

\* C29 witness: the upstream has ended its direction after bytes went both
\* ways, and both sockets are closed.
C29_Witness ==
    /\ session.last = "relay_done" /\ session.ended = "dest -> client"
    /\ session.cl_in # << >> /\ session.up_in # << >>
    /\ session.up = "closed" /\ session.closed

\* The reply of _authenticate: the two bytes after the method selection.
AuthReply == SubSeq(session.out, 3, 4)

\* C30: in the sub-negotiation the server replies with status 0x00 exactly
\* when the version is 0x01 and the credentials are accepted, with 0x01
\* otherwise; after a failure reply the connection is closed and no request
\* is read from it.
C30_AuthReply ==
    session.auth # NoAuthRequest =>
        /\ Len(session.out) >= 4
        /\ AuthReply = IF CredentialsAccepted THEN <<1, 0>> ELSE <<1, 1>>
        /\ (\E i \in 3..(Len(session.out) - 1) :
                SubSeq(session.out, i, i + 1) = <<1, 1>> /\ i \in {3, 5}) =>
              /\ session.pc = "closed" /\ session.closed
              /\ session.req = NoRequest /\ session.up = "none"

\* C30 witness: the right credentials in a sub-negotiation of version 2
\* were answered 01 01 and the connection closed.
C30_Witness ==
    /\ session.auth.ver = 2 /\ session.auth.complete
    /\ authenticate_user(users, session.auth.username, session.auth.password)
    /\ session.out = <<5, 2, 1, 1>>
    /\ session.pc = "closed" /\ session.closed

\* The bytes written after the handshake: 2 for the method selection and 2
\* more for the reply of the sub-negotiation.
AfterHandshake ==
    LET n == IF session.method = USERNAME_PASSWORD THEN 4 ELSE 2
    IN  SubSeq(session.out, n + 1, Len(session.out))

\* A request was read, or its reading was cut short.
RequestStep == session.req # NoRequest \/ session.last = "request"

\* C31: a request of version 5 with an address type other than 1, 3 and 4
\* is answered with the reply code 0x08; a request that does not parse (its
\* header cut short, another version, its address or port cut short) with
\* 0x01; in both cases no upstream connection is opened and the connection
\* is closed.
C31_RequestRejected ==
    LET r == session.req
        unparsed == ~r.hdr \/ r.version # VERSION
        refused == r.hdr /\ r.version = VERSION /\ r.atyp \notin {1, 3, 4}
        truncated == r.hdr /\ r.version = VERSION /\ r.atyp \in {1, 3, 4} /\ ~r.complete
    IN  RequestStep =>
           /\ refused => AfterHandshake = <<5, 8, 0, 1, 0, 0, 0, 0, 0, 0>>
           /\ (unparsed \/ truncated) => AfterHandshake = <<5, 1, 0, 1, 0, 0, 0, 0, 0, 0>>
           /\ (refused \/ unparsed \/ truncated) =>
                 /\ session.up = "none" /\ session.dial = "none"
                 /\ session.pc = "closed" /\ session.closed

\* C31 witness: a CONNECT request of version 5 with the address type 5 was
\* answered 0x08 and the connection closed.
C31_Witness ==
    /\ session.req.hdr /\ session.req.version = VERSION /\ session.req.atyp = 5
    /\ session.req.cmd = CONNECT
    /\ AfterHandshake = <<5, 8, 0, 1, 0, 0, 0, 0, 0, 0>>
    /\ session.up = "none" /\ session.closed

\* The handshake has read, or failed to read, a greeting.
GreetingStep == session.greet # NoGreeting

\* C32: a greeting of another version than 5 is answered 05 FF and the
\* connection closed; the server reads the two header bytes and nothing
\* more: no method, no sub-negotiation, no request.
C32_WrongVersion ==
    (GreetingStep /\ session.greet.hdr /\ session.greet.version # 5) =>
        /\ session.out = <<5, 255>>
        /\ session.pc = "closed" /\ session.closed
        /\ session.greet_read = 2
        /\ session.method = -1
        /\ session.auth = NoAuthRequest /\ session.req = NoRequest
        /\ session.up = "none"

\* C32 witness: a greeting of version 4 that offers no-auth was answered
\* 05 FF.
C32_Witness ==
    /\ session.greet.hdr /\ session.greet.version = 4
    /\ session.greet.methods = <<NO_AUTH>> /\ ~require_auth
    /\ session.out = <<5, 255>> /\ session.closed

C37_OneReply ==
    LET sent == AfterHandshake
    IN  RequestStep =>
           /\ (Len(sent) >= 2 /\ sent[2] = SUCCEEDED) =>
                 sent = LocalReply(SUCCEEDED) \o session.up_in
           /\ (Len(sent) >= 2 /\ sent[2] # SUCCEEDED) => Len(sent) = 10

\* C38: when a session has ended, on whatever path, the client connection
\* is closed and so is the upstream connection if the session opened one.
C38_NothingOutlives ==
    session.pc = "closed" =>
        /\ session.closed
        /\ session.up \in {"none", "closed"}

(***************************************************************************)
(* The size counter of MemoryCache, checked under SpecCache.               *)
(***************************************************************************)
\* C39: in every state of MemoryCache the counter self.size is the sum of
\* the sizes of the entries stored, and it is never negative, whatever
\* calls of set, get and delete came before.
C39_SizeCounter ==
    /\ size = SumSizes(cache)
    /\ size >= 0

\* C39 witness: a set has evicted an entry to make room and left others in
\* the cache, and the counter is their sum.
C39_Witness ==
    /\ ret.op = "set" /\ ret.ok /\ ret.evicted # << >>
    /\ Len(cache) >= 2
    /\ size = SumSizes(cache) /\ size > 0

\* C40: a call of is_allowed that returns false leaves the client's bucket
\* with the refilled token count, which is not lower than the count before the
\* call, and with updated_at at the time of the call; the buckets of the other
\* clients are as before.
DeniedCall ==
    \A c \in ClientIds :
        IsAllowed(c) /\ ~calls'[c].allowed =>
            /\ c \in DOMAIN clients
            /\ DOMAIN clients' = DOMAIN clients
            /\ clients'[c].tokens =
                   Min(burst * TokenScale,
                       clients[c].tokens + (now - clients[c].updated_at) * requests_per_minute)
            /\ clients'[c].tokens >= clients[c].tokens
            /\ clients'[c].updated_at = now
            /\ \A d \in DOMAIN clients \ {c} : clients'[d] = clients[d]

C40_DeniedKeepsRefill == [][DeniedCall]_vars

\* C40 witness: a client denied twice in a row, the second time later than the
\* first, holds the tokens that accumulated, while another client's bucket is
\* full.
C40_Witness ==
    \E c, d \in DOMAIN clients :
        /\ c # d
        /\ calls[c].denials = 2
        /\ clients[c].tokens > 0
        /\ clients[c].updated_at = now
        /\ clients[d].tokens = burst * TokenScale

\* The number of times the stage was entered.
Invocations(trace, stage) == Cardinality({i \in 1..Len(trace) : trace[i] = stage})

\* C34: while a request is served, every stage is entered at most once and
\* hands the request to its successor at most once, so that the stages
\* entered are an initial part of the configured stages followed by the
\* handler, and the handler is invoked at most once.
C34_NextAtMostOnce ==
    pipe.op = "request" =>
        /\ Len(pipe.trace) <= Len(middlewares) + 1
        /\ pipe.trace = SubSeq(middlewares \o <<"handler">>, 1, Len(pipe.trace))
        /\ \A stage \in {"auth_middleware", "rate_limit_middleware",
                         "cache_middleware", "handler"} :
               Invocations(pipe.trace, stage) <= 1

\* C34 witness: a request passed the three stages and reached the handler,
\* once.
C34_Witness ==
    /\ pipe.op = "request"
    /\ pipe.trace = <<"error_middleware", "logging_middleware", "auth_middleware",
                      "rate_limit_middleware", "cache_middleware", "handler">>
    /\ pipe.looked_up /\ ~pipe.hit
    /\ Invocations(pipe.trace, "handler") = 1

SessionEnds == session'.pc # session.pc /\ session'.pc \in {"closed", "done"}

SessionEndIsolated ==
    SessionEnds =>
        /\ server'.pc = "running" /\ server'.listeners = 1
        /\ server'.inflight = server.inflight
        /\ server'.severed = 0

\* C36: when a session ends, whatever the failure that ended it, the
\* listener is still listening and the relays of the other sessions are as
\* they were: none is cut off.
C36_FailureIsolated == [][SessionEndIsolated]_vars

\* C36 witness: the task of a session ended with an exception that reached
\* the loop; the listener has accepted the next connection since, and the
\* relays of other sessions are in flight.
C36_Witness ==
    /\ server.logged
    /\ session = NewSession
    /\ server.listeners = 1
    /\ server.inflight = MaxInflight
    /\ server.severed = 0

====
